---- MODULE Spec2Model ----
(***************************************************************************)
(* State-machine model of the mycelium simulation (src/src/simulation.rs). *)
(*                                                                         *)
(* Numbers.  The program computes in f32.  The model is fixed point:       *)
(*   positions   in units of 1/PosScale grid cell,                         *)
(*   energies, nutrient amounts and strengths in units of 1/EScale,        *)
(*   ages        in units of 0.01 (one agent-pass increment),              *)
(*   the fruiting cooldown in frames at 60 frames per second.              *)
(* Products are rounded the way the comment at each definition says.       *)
(* Indices into the agent collection keep the program's 0-based values;    *)
(* At(seq, i) reads element i of a 0-based vector.                         *)
(*                                                                         *)
(* Random draws are existentially quantified inputs of the tick.  The      *)
(* heading of an agent after gradient steering, memory and signal bias and *)
(* random wander is one such draw (an element of Headings, a multiple of   *)
(* 45 degrees); the fields that only feed the heading (angle, memory grid, *)
(* signals, last nutrient location) and the drawing-only fields (segments, *)
(* flow cache, view toggles) are therefore not part of the state.          *)
(*                                                                         *)
(* Evaluation.  The tick is a fold over agents, buckets, connections and   *)
(* cells.  Bind(v, F) applies F to the value of v, so that the result of   *)
(* one stage is computed once before the next stage reads it.              *)
(***************************************************************************)
EXTENDS Integers, Sequences, FiniteSets, TLC

PosScale == 2 ^ 1
EScale == 10 ^ 4

None == -1

(***************************************************************************)
(* Bounds of the model.                                                    *)
(***************************************************************************)
MaxTicks == 2
MaxExternalCalls == 1

(***************************************************************************)
(* Arithmetic helpers.                                                     *)
(***************************************************************************)
Min(a, b) == IF a <= b THEN a ELSE b
Max(a, b) == IF a >= b THEN a ELSE b
Abs(a) == IF a >= 0 THEN a ELSE -a
Clamp(v, lo, hi) == IF v < lo THEN lo ELSE IF v > hi THEN hi ELSE v

\* a / b rounded toward zero (b > 0)
TruncDiv(a, b) == IF a >= 0 THEN a \div b ELSE -((-a) \div b)

\* a / b rounded to nearest, halves away from zero (b > 0)
RoundDiv(a, b) == IF a >= 0 THEN (2 * a + b) \div (2 * b) ELSE -((2 * (-a) + b) \div (2 * b))

\* v * num / den on energy-scaled values, rounded toward zero
Scaled(v, num, den) == TruncDiv(v * num, den)

\* F applied to the value of v
Bind(v, F(_)) == CHOOSE r \in {F(x) : x \in {v}} : TRUE

\* the larger of s and s + 1 whose square does not exceed n
IsqrtPick(s, n) == IF (s + 1) * (s + 1) <= n THEN s + 1 ELSE s

RECURSIVE Isqrt(_)
\* floor of the square root
Isqrt(n) == IF n < 2 THEN n ELSE Bind(2 * Isqrt(n \div 4), LAMBDA s : IsqrtPick(s, n))

At(seq, i) == seq[i + 1]
InRange(seq, i) == i >= 0 /\ i < Len(seq)
Indices(seq) == 0 .. (Len(seq) - 1)

\* the elements of a finite set of integers, largest first (sort + reverse)
SetToSeqDesc(S) ==
    [k \in 1 .. Cardinality(S) |-> CHOOSE x \in S : Cardinality({y \in S : y > x}) = k - 1]

\* Vec::swap_remove(idx): the last element takes the place of element idx
swap_remove(seq, idx) ==
    [k \in 1 .. (Len(seq) - 1) |-> IF k = idx + 1 THEN seq[Len(seq)] ELSE seq[k]]

RECURSIVE RemoveDescChecked(_, _)
\* for &idx in &indices { if idx < v.len() { v.swap_remove(idx); } }
RemoveDescChecked(seq, idxs) ==
    IF idxs = <<>> THEN seq
    ELSE Bind(IF Head(idxs) < Len(seq) THEN swap_remove(seq, Head(idxs)) ELSE seq,
              LAMBDA s : RemoveDescChecked(s, Tail(idxs)))

\* rng.gen::<f32>() < p for a probability p given in 1/EScale
Chance(p) == IF p <= 0 THEN {FALSE} ELSE IF p >= EScale THEN {TRUE} ELSE {TRUE, FALSE}

(***************************************************************************)
(* Directions: heading k stands for the angle k * 45 degrees.              *)
(***************************************************************************)
Cos1000(k) == CASE k % 8 = 0 -> 1000 [] k % 8 = 1 -> 707 [] k % 8 = 2 -> 0
                [] k % 8 = 3 -> -707 [] k % 8 = 4 -> -1000 [] k % 8 = 5 -> -707
                [] k % 8 = 6 -> 0 [] OTHER -> 707
Sin1000(k) == Cos1000(k + 6)

\* angle.cos() * len and angle.sin() * len, rounded to the position grid
DispX(k, len) == RoundDiv(Cos1000(k) * len, 1000)
DispY(k, len) == RoundDiv(Sin1000(k) * len, 1000)

\* std::f32::consts::PI - angle, and -angle
ReflectX(k) == (12 - k) % 8
ReflectY(k) == (8 - k) % 8

(***************************************************************************)
(* Configuration (SimulationConfig).  The program reads it from a file and *)
(* does not validate it.  The model runs eight configurations from their   *)
(* construction, seven of them on a 6 x 6 grid with time constants short   *)
(* enough for every stage of the tick to act within MaxTicks ticks:        *)
(*   GrowthConfig    branching, eviction, fusion, connections at full      *)
(*                   strength; no fruiting; rates in [0, 1];               *)
(*   FruitingConfig  two agents that do not branch, senescence, weak       *)
(*                   connections that are pruned, fruit bodies and spores; *)
(*                   rates in [0, 1];                                      *)
(*   AmplifyingConfig  GrowthConfig with flow_decay_rate = 1.5;            *)
(*   StarvingConfig  one agent at rest on cells without nutrients;         *)
(*   SenescentConfig three such agents that can die of age in any tick,    *)
(*                   without a growth limit;                               *)
(*   FusingConfig    three agents at rest that fuse from their second tick *)
(*                   on, without a growth limit;                           *)
(*   BarrenConfig    a grid without agents, run with the frame rate        *)
(*                   measured (HEADLESS_MODE off);                         *)
(*   ZeroGridConfig  grid_size = 0, for which the constructor panics.      *)
(* All of them have weather_enabled = false, so that the tick leaves the   *)
(* weather alone and its growth, branching and decay multipliers are 1,    *)
(* and signal_propagation_enabled = false.  WeatherConfig, with            *)
(* weather_enabled = true, is run through the weather update only.         *)
(* Lengths are in position units, amounts in 1/EScale, ages in ticks, the  *)
(* cooldown in frames.                                                     *)
(***************************************************************************)
GrowthConfig ==
    [ grid_size |-> 6,
      weather_enabled |-> FALSE,
      cell_size |-> 4 * PosScale,
      branch_prob |-> 80,
      step_size |-> 1,
      nutrient_decay |-> 6000,
      diffusion_rate |-> 500,
      spore_germination_threshold |-> 6000,
      spore_max_age |-> 500,
      obstacle_count |-> 1,
      energy_decay_rate |-> 9985,
      min_energy_to_live |-> 2000,
      senescence_enabled |-> FALSE,
      senescence_base_probability |-> 1,
      senescence_min_age |-> 2,
      anastomosis_distance |-> 2 * PosScale,
      connection_flow_rate |-> 200,
      hyphae_avoidance_distance |-> 2 * PosScale,
      fruiting_min_hyphae |-> 12,
      fruiting_threshold_total_energy |-> 60000,
      fruiting_cooldown |-> 2,
      fruiting_lifespan_min |-> 2,
      fruiting_lifespan_max |-> 2,
      fruiting_spore_release_fraction |-> 5000,
      fruiting_spore_count |-> 1,
      fruiting_spore_drift |-> 0,
      fruiting_spore_radius |-> 1 * PosScale,
      fruiting_spawn_nutrient_threshold |-> 3800,
      fruiting_nutrient_return_fraction |-> 2500,
      fruiting_spore_release_interval |-> 1500,
      fruiting_fallback_threshold |-> 2000,
      fruiting_failed_attempts_before_fallback |-> 1,
      nutrient_regen_rate |-> 40,
      nutrient_regen_floor |-> 1200,
      nutrient_regen_samples |-> 0,
      initial_hyphae_count |-> 1,
      memory_enabled |-> TRUE,
      adaptive_growth_enabled |-> TRUE,
      flow_strengthening_rate |-> 10000,
      flow_decay_rate |-> 9980,
      min_connection_strength |-> EScale,
      pruning_threshold |-> 500,
      max_hyphae |-> 2,
      max_hyphae_branching_threshold |-> 3,
      fusion_enabled |-> TRUE,
      fusion_distance |-> 1 * PosScale,
      fusion_energy_transfer |-> 5000,
      fusion_min_age |-> 1 ]

FruitingConfig ==
    [ GrowthConfig EXCEPT
      !.branch_prob = 0,
      !.step_size = 0,
      !.obstacle_count = 0,
      !.senescence_enabled = TRUE,
      !.initial_hyphae_count = 2,
      !.fruiting_min_hyphae = 1,
      !.fruiting_threshold_total_energy = 5000,
      !.fruiting_lifespan_max = 5,
      !.nutrient_regen_samples = 1,
      !.connection_flow_rate = 10000,
      !.min_connection_strength = 1000,
      !.pruning_threshold = 2000,
      !.max_hyphae = 3,
      !.fusion_enabled = FALSE ]

\* GrowthConfig with a decay rate above 1, as a configuration file can set it
\* (SimulationConfig::from_file does not validate the rates)
AmplifyingConfig == [ GrowthConfig EXCEPT !.flow_decay_rate = 15000 ]

\* one agent that neither moves nor branches, on a grid that does not diffuse;
\* its energy halves every tick
StarvingConfig ==
    [ GrowthConfig EXCEPT
      !.branch_prob = 0,
      !.step_size = 0,
      !.obstacle_count = 0,
      !.diffusion_rate = 0,
      !.energy_decay_rate = 5000,
      !.fusion_enabled = FALSE ]

\* no agents and no regeneration; diffusion_rate = 0.4
BarrenConfig ==
    [ GrowthConfig EXCEPT
      !.branch_prob = 0,
      !.obstacle_count = 0,
      !.diffusion_rate = 4000,
      !.initial_hyphae_count = 0 ]

(***************************************************************************)
(* State: the fields of SimulationState and Simulation that the tick       *)
(* reads, the process-wide flag HEADLESS_MODE (headless_mode), and four    *)
(* observation variables of the model:                                     *)
(*   oob          an index was out of range in the last tick (a panic),    *)
(*   tick_events  what the stages of the last tick did (unlinked: the      *)
(*                pairs of live agents inside the grid and within          *)
(*                anastomosis distance that the formation pass left        *)
(*                without a connection; fps_dependent: the same tick, from *)
(*                the same state and with the same draws, ends in another  *)
(*                state under another frame rate get_fps() can report;     *)
(*                stages: the stages the tick ran, in the order it ran     *)
(*                them),                                                   *)
(*   external_calls  number of reset/spawn/injection calls made so far,    *)
(*   last_call    the name of the call that returned last.                 *)
(***************************************************************************)
VARIABLES config, hyphae, spores, connections, connection_set, fruit_bodies,
          nutrients, obstacles, spatial_grid, fruit_cooldown_timer,
          fruiting_failed_attempts, frame_index, oob, tick_events,
          external_calls, last_call, headless_mode,
          paused, speed_accumulator,
          simulation_lock, rng_lock, loop_pc, loop_steps, requests, weather

vars == <<config, hyphae, spores, connections, connection_set, fruit_bodies,
          nutrients, obstacles, spatial_grid, fruit_cooldown_timer,
          fruiting_failed_attempts, frame_index, oob, tick_events,
          external_calls, last_call, headless_mode,
          paused, speed_accumulator,
          simulation_lock, rng_lock, loop_pc, loop_steps, requests, weather>>

\* Simulation::paused and speed_accumulator, and the state of the HTTP
\* transport: the holders of the two mutexes of ApiState (Free, Poisoned,
\* LoopTask or Handler(r) for the request r), the position of simulation_loop and the
\* ticks it has left to run, and the requests the handlers have taken up
server == <<paused, speed_accumulator, simulation_lock, rng_lock, loop_pc, loop_steps, requests>>

Cells(G) == (0 .. (G - 1)) \X (0 .. (G - 1))

\* Hypha { x, y, alive: true, energy: 0.5, parent: None, age: 0.0, strength: 1.0 }
NewHypha(px, py) ==
    [x |-> px, y |-> py, alive |-> TRUE, energy |-> EScale \div 2, parent |-> None,
     age |-> 0, strength |-> EScale]

\* SimulationState::new: vec![vec![Vec::new(); ny]; nx], nx = ceil(grid_size / cell_size)
spatial_grid_nx(cfg) == ((cfg.grid_size * PosScale) + cfg.cell_size - 1) \div cfg.cell_size
EmptyGrid(cfg) ==
    [b \in (0 .. (spatial_grid_nx(cfg) - 1)) \X (0 .. (spatial_grid_nx(cfg) - 1)) |-> <<>>]

NoEvents ==
    [evicted |-> 0, branched |-> 0, fused |-> 0, formed |-> 0, cleaned |-> 0,
     pruned |-> 0, died |-> 0, germinated |-> 0, released |-> 0, fruited |-> 0,
     fruit_died |-> 0, stale_skipped |-> 0, sprouted |-> 0, unlinked |-> 0,
     fps_dependent |-> FALSE, stages |-> <<>>, repointed |-> 0,
     misread |-> 0, severed |-> 0, absorbed_by_one |-> 0, flowed |-> 0,
     early_transfers |-> 0, mistransferred |-> 0, max_transfer |-> 0,
     fruit_guard |-> [cooldown |-> 0, live |-> 0, energy |-> 0],
     site |-> [searched |-> FALSE, obstructed |-> FALSE, richest |-> TRUE],
     silent_deaths |-> 0, final_releases |-> 0, misparented |-> 0,
     in_obstacle |-> 0]

(***************************************************************************)
(* Inputs of construction and of the external calls.                       *)
(***************************************************************************)
\* an outcome of initialize_realistic_nutrients (every cell clamped to [0, 1]):
\* a sugar patch on the left, a nitrogen band across the middle
NutrientFields(G) ==
    { [sugar |-> [c \in Cells(G) |-> IF c[1] <= 2 THEN EScale ELSE 0],
       nitrogen |-> [c \in Cells(G) |-> IF c[2] = 3 THEN 4000 ELSE 0]] }

\* outcomes of the obstacle draws: obstacle_count cells set (two draws may
\* hit the same cell)
ObstacleLayouts(cfg) ==
    IF cfg.obstacle_count = 0 THEN {{}}
    ELSE IF cfg.obstacle_count = 1 THEN {{<<4, 3>>}}
    ELSE {{<<3, 3>>}, {<<3, 3>>, <<1, 1>>}}

\* center + rng.gen_range(-10.0..10.0): draws inside the playable area
InitPositions == {<<3, 6>>, <<7, 6>>}

Configs == {GrowthConfig, FruitingConfig, AmplifyingConfig}

\* a configuration file that sets grid_size to 0
ZeroGridConfig == [GrowthConfig EXCEPT !.grid_size = 0, !.obstacle_count = 0]

\* a construction that returns whatever the grid size
ConstructsAlways(cfg) == TRUE

\* initialize_realistic_nutrients draws rng.gen_range(0.0..grid_size as f32)
\* for its first patch; gen_range panics on an empty range
Constructs(cfg) == 0 < cfg.grid_size

\* with_config has returned an instance
Constructed == last_call # "panicked"

\* a draw that puts the agent on cell (4, 2), which holds no sugar and no nitrogen
BarePositions == {<<9, 4>>}

\* three agents next to each other that neither move nor branch and that can
\* die of age from their first tick on
SenescentConfig ==
    [StarvingConfig EXCEPT
      !.senescence_enabled = TRUE,
      !.senescence_min_age = 1,
      !.initial_hyphae_count = 3,
      !.max_hyphae = 0]

\* center + rng.gen_range(-10.0..10.0): draws on the barren right of the grid
ColonyPositions == {<<9, 4>>, <<8, 5>>}

\* three agents at rest, old enough to fuse from their second tick on,
\* without a growth limit
FusingConfig ==
    [GrowthConfig EXCEPT
      !.branch_prob = 0,
      !.step_size = 0,
      !.obstacle_count = 0,
      !.initial_hyphae_count = 3,
      !.max_hyphae = 0,
      !.fusion_min_age = 2]

\* center + rng.gen_range(-10.0..10.0): draws on both sides of the bucket
\* border y = 4.0
FusingPositions == {<<4, 8>>, <<5, 8>>, <<8, 8>>, <<5, 7>>}

\* the runs of the model: a configuration, the state of HEADLESS_MODE and the
\* positions the initial agents are drawn from
Launches ==
    {[config |-> c, headless |-> TRUE, positions |-> InitPositions] : c \in Configs}
      \cup {[config |-> StarvingConfig, headless |-> TRUE, positions |-> BarePositions],
            [config |-> BarrenConfig, headless |-> FALSE, positions |-> InitPositions],
            [config |-> ZeroGridConfig, headless |-> TRUE, positions |-> InitPositions],
            [config |-> SenescentConfig, headless |-> TRUE, positions |-> ColonyPositions],
            [config |-> FusingConfig, headless |-> TRUE, positions |-> FusingPositions]}

(***************************************************************************)
(* Weather (weather.rs).  time is in frames of 1/60 s, the other fields in *)
(* 1/EScale.                                                               *)
(***************************************************************************)
\* Weather::new
Weather_new ==
    [temperature |-> 8500, humidity |-> 6500, rain |-> 0, time |-> 0, season |-> "Spring",
     season_time |-> 0, seasonal_cycle_enabled |-> TRUE]

\* Weather::get_season at the time t: each season lasts a quarter of 4.0 s
get_season(w, t) ==
    IF ~w.seasonal_cycle_enabled THEN w.season
    ELSE <<"Spring", "Summer", "Autumn", "Winter">>[((t % 240) \div 60) + 1]

\* let seasonal_temp = ...
seasonal_temp(w, season, st) ==
    IF ~w.seasonal_cycle_enabled THEN 8500
    ELSE CASE season = "Spring" -> 7000 + (st * 3) \div 10
           [] season = "Summer" -> 10000 + (st * 4) \div 10
           [] season = "Autumn" -> 14000 - (st * 3) \div 10
           [] OTHER -> 11000 - (st * 5) \div 10

\* let seasonal_humidity_target = ...
seasonal_humidity_target(w, season) ==
    IF ~w.seasonal_cycle_enabled THEN 6500
    ELSE CASE season = "Spring" -> 7500
           [] season = "Summer" -> 4500
           [] season = "Autumn" -> 7000
           [] OTHER -> 6000

\* the humidity under rain without its cap
HumidityInRainUncapped(h, rain, dt) == h + (rain * 2 * dt) \div 100

\* (self.humidity + self.rain * 0.02 * dt * 60.0).min(0.95)
HumidityInRain(h, rain, dt) == Min(h + (rain * 2 * dt) \div 100, 9500)

\* the draws of one update: the random variation of the temperature, whether
\* gen::<f32>() falls under the rain probability (it can, and it need not:
\* the probability lies strictly between 0 and 1), and gen_range(0.4..1.0).
\* day_night stands for (time * 0.03).sin() * 0.1, any value in [-0.1, 0.1].
WeatherDraws ==
    [random_variation : {-150, 149}, day_night : {-1000, 1000}, rain_starts : BOOLEAN,
     rain : {4000, 9999}]

\* Weather::update(dt, rng) with dt in frames and the draws d
Weather_update(w, dt, d) ==
    Bind(w.time + dt,
         LAMBDA time :
    Bind(get_season(w, time),
         LAMBDA season :
    Bind((((time % 240) % 60) * EScale) \div 60,
         LAMBDA st :
           [w EXCEPT
              !.time = time,
              !.season = season,
              !.season_time = st,
              !.temperature =
                  Clamp(TruncDiv(w.temperature * 998
                                   + (seasonal_temp(w, season, st) + d.day_night
                                        + d.random_variation) * 2, 1000),
                        3000, 16000),
              !.humidity =
                  IF w.rain > 1000 THEN HumidityInRain(w.humidity, w.rain, dt)
                  ELSE Max(TruncDiv(w.humidity * 999 + seasonal_humidity_target(w, season),
                                    1000), 3000),
              !.rain =
                  IF d.rain_starts THEN d.rain
                  ELSE IF w.rain > 0 THEN Max(w.rain - 50 * dt, 0)
                  ELSE w.rain])))

\* the state after Simulation::with_config for one of the launches ls
InitFrom(ls) ==
    /\ \E l \in ls :
          /\ config = l.config
          /\ headless_mode = l.headless
          /\ IF Constructs(l.config)
             THEN /\ \E pos \in [1 .. l.config.initial_hyphae_count -> l.positions] :
                        hyphae = [k \in 1 .. l.config.initial_hyphae_count |->
                                     NewHypha(pos[k][1], pos[k][2])]
                  /\ nutrients \in NutrientFields(config.grid_size)
                  /\ obstacles \in ObstacleLayouts(config)
                  /\ spatial_grid = EmptyGrid(config)
                  /\ last_call = "new"
             ELSE \* the constructor panicked: there is no instance to call
                  /\ hyphae = <<>>
                  /\ nutrients = [sugar |-> <<>>, nitrogen |-> <<>>]
                  /\ obstacles = <<>>
                  /\ spatial_grid = <<>>
                  /\ last_call = "panicked"
    /\ spores = <<>>
    /\ connections = <<>>
    /\ connection_set = {}
    /\ fruit_bodies = <<>>
    /\ fruit_cooldown_timer = 0
    /\ fruiting_failed_attempts = 0
    /\ frame_index = 0
    /\ oob = FALSE
    /\ tick_events = NoEvents
    /\ external_calls = 0
    /\ paused = FALSE
    /\ speed_accumulator = 0
    /\ simulation_lock = <<>>
    /\ rng_lock = <<>>
    /\ loop_pc = "idle"
    /\ loop_steps = 0
    /\ requests = <<>>

Init == InitFrom(Launches) /\ weather = Weather_new

(***************************************************************************)
(* Geometry shared by the stages of the tick.                              *)
(***************************************************************************)
\* in_bounds(x, y, grid_size)
in_bounds(px, py, G) == px >= 0 /\ py >= 0 /\ px < G * PosScale /\ py < G * PosScale

\* `v as usize` on an f32: negative values saturate to 0, others truncate
CellOf(v) == IF v < 0 THEN 0 ELSE v \div PosScale

\* let cell_size: f32 = 4.0;  (v / cell_size).floor() as isize
bucket_cell_size == 4 * PosScale
BucketOf(v) == v \div bucket_cell_size

Dist2(ax, ay, bx, by) == (ax - bx) * (ax - bx) + (ay - by) * (ay - by)

IndexSeq(n) == [k \in 1 .. n |-> k - 1]

RECURSIVE FlattenFrom(_, _)
FlattenFrom(ss, k) == IF k > Len(ss) THEN <<>> ELSE ss[k] \o FlattenFrom(ss, k + 1)
\* the concatenation of a sequence of sequences
Flatten(ss) == Bind(ss, LAMBDA v : FlattenFrom(v, 1))

RECURSIVE SumFrom(_, _)
SumFrom(ss, k) == IF k > Len(ss) THEN 0 ELSE ss[k] + SumFrom(ss, k + 1)
\* the sum of a sequence of numbers
SumSeq(ss) == Bind(ss, LAMBDA v : SumFrom(v, 1))

(***************************************************************************)
(* Growth limits: eviction at the start of the tick.                       *)
(***************************************************************************)
\* agent j is removed before agent i when the agents are sorted by age, oldest first
OlderFirst(hs, j, i) ==
    \/ At(hs, j).age > At(hs, i).age
    \/ (At(hs, j).age = At(hs, i).age /\ j < i)

\* the first `excess` dead or weak agents, then the oldest of the others
EvictionIndices(cfg, hs) ==
    Bind({i \in Indices(hs) : ~At(hs, i).alive \/ At(hs, i).energy < (3 * EScale) \div 10},
         LAMBDA weak :
    Bind({i \in weak : Cardinality({j \in weak : j < i}) < Len(hs) - cfg.max_hyphae},
         LAMBDA weakFirst :
    Bind(Indices(hs) \ weakFirst,
         LAMBDA rest :
           weakFirst \cup
             {i \in rest : Cardinality({j \in rest : OlderFirst(hs, j, i)})
                              < Len(hs) - cfg.max_hyphae - Cardinality(weakFirst)})))

\* for each agent left after the removals idxs from a collection of n agents,
\* the index it had before them
Origins(n, idxs) == RemoveDescChecked(IndexSeq(n), idxs)

\* the stored index r designates another agent after the removals than before
Repointed(origins, r) == InRange(origins, r) /\ At(origins, r) # r

\* the number of parent indices of remaining agents and of endpoints of the
\* connections conns that the removals idxs from hs leave designating
\* another agent
RepointedRefs(hs, conns, idxs) ==
    Bind(Origins(Len(hs), idxs),
         LAMBDA origins :
           Cardinality({k \in Indices(origins) :
                          Repointed(origins, At(hs, At(origins, k)).parent)})
             + Cardinality({k \in Indices(conns) : Repointed(origins, At(conns, k).hypha1)})
             + Cardinality({k \in Indices(conns) : Repointed(origins, At(conns, k).hypha2)}))

\* the references the eviction of the tick leaves designating another agent
EvictionRepoints(cfg, hs, conns) ==
    IF cfg.max_hyphae > 0 /\ Len(hs) > cfg.max_hyphae
    THEN RepointedRefs(hs, conns, SetToSeqDesc(EvictionIndices(cfg, hs)))
    ELSE 0

EvictExcess(cfg, hs) ==
    IF cfg.max_hyphae > 0 /\ Len(hs) > cfg.max_hyphae
    THEN Bind(SetToSeqDesc(EvictionIndices(cfg, hs)), LAMBDA idxs : RemoveDescChecked(hs, idxs))
    ELSE hs

(***************************************************************************)
(* Spatial hash grid and the position snapshot of the agent pass.          *)
(***************************************************************************)
BuildBuckets(cfg, hs) ==
    [b \in DOMAIN EmptyGrid(cfg) |->
        SelectSeq(IndexSeq(Len(hs)),
                  LAMBDA i : /\ At(hs, i).alive
                             /\ BucketOf(At(hs, i).x) = b[1]
                             /\ BucketOf(At(hs, i).y) = b[2])]

DeadSnapshotEntry == [x |-> 0, y |-> 0, alive |-> FALSE, energy |-> 0, parent |-> None]

\* one entry is pushed per live agent, then the vector is padded to hyphae_len
BuildSnapshot(hs) ==
    Bind(SelectSeq(hs, LAMBDA h : h.alive),
         LAMBDA live :
           [k \in 1 .. Len(hs) |->
               IF k <= Len(live)
               THEN [x |-> live[k].x, y |-> live[k].y, alive |-> live[k].alive,
                     energy |-> live[k].energy, parent |-> live[k].parent]
               ELSE DeadSnapshotEntry])

\* the buckets (bx-1..=bx+1) x (by-1..=by+1) that exist, in scan order
NeighbourBuckets(grid, bx, by, nx) ==
    Flatten([i \in 1 .. 3 |->
        Flatten([j \in 1 .. 3 |->
            IF <<bx + i - 2, by + j - 2>> \in DOMAIN grid
            THEN grid[<<bx + i - 2, by + j - 2>>] ELSE <<>>])])

(***************************************************************************)
(* Agent pass: movement, uptake, decay, death, parent transfer, branching. *)
(* The working record p carries hyphae, nutrients, the queued energy       *)
(* transfers, the agents born in this pass, oob and the event counters.    *)
(***************************************************************************)
Headings == {0, 4}
BranchTurns == {0}

\* let offset_distance = 1.5;
branch_offset_distance == (3 * PosScale) \div 2
\* let max_dist = 6.0f32;
parent_max_dist == 6 * PosScale

\* density and collision scan over the neighbouring buckets; the scan stops
\* at the first collision
NeighbourScan(idx, h, new_x, new_y, snap, grid) ==
    Bind(SelectSeq(NeighbourBuckets(grid, BucketOf(h.x), BucketOf(h.y), 0),
                   LAMBDA o : o # idx /\ o < Len(snap) /\ At(snap, o).alive),
         LAMBDA cands :
    Bind({k \in 1 .. Len(cands) :
             LET d == Dist2(new_x, new_y, At(snap, cands[k]).x, At(snap, cands[k]).y)
             IN d < config.hyphae_avoidance_distance * config.hyphae_avoidance_distance /\ d > 0},
         LAMBDA hits :
    Bind(IF hits = {} THEN Len(cands) ELSE CHOOSE k \in hits : \A m \in hits : k <= m,
         LAMBDA stop :
           [neighbor_count |->
                Cardinality({k \in 1 .. stop :
                    Dist2(h.x, h.y, At(snap, cands[k]).x, At(snap, cands[k]).y)
                        < 4 * config.hyphae_avoidance_distance * config.hyphae_avoidance_distance}),
            too_close |-> hits # {}])))

\* h.x += h.angle.cos() * final_step_size, with
\* final_step_size = step_size * density_slow * strength_multiplier
Advance(h, heading, neighbor_count) ==
    LET strength_multiplier == IF config.adaptive_growth_enabled THEN h.strength ELSE EScale
        num == config.step_size * 20 * strength_multiplier
        den == (20 + neighbor_count) * EScale
    IN [x |-> h.x + RoundDiv(Cos1000(heading) * num, 1000 * den),
        y |-> h.y + RoundDiv(Sin1000(heading) * num, 1000 * den),
        angle |-> heading]

\* the first of the eight test angles whose cell is in bounds and free, if any
ClearTurns(h, heading) ==
    {a \in 0 .. 7 :
        LET tx == h.x + DispX(heading + a, config.step_size)
            ty == h.y + DispY(heading + a, config.step_size)
        IN in_bounds(tx, ty, config.grid_size) /\ <<CellOf(tx), CellOf(ty)>> \notin obstacles}

\* a move into an obstacle cell is undone and redirected
AvoidObstacle(h, m) ==
    IF in_bounds(m.x, m.y, config.grid_size) /\ <<CellOf(m.x), CellOf(m.y)>> \in obstacles
    THEN Bind(ClearTurns(h, m.angle),
              LAMBDA clear :
         Bind(IF clear # {} THEN (m.angle + (CHOOSE a \in clear : \A b \in clear : a <= b)) % 8
              ELSE (m.angle + 4) % 8,
              LAMBDA turned :
                [x |-> h.x + DispX(turned, config.step_size),
                 y |-> h.y + DispY(turned, config.step_size),
                 angle |-> turned]))
    ELSE m

\* a move out of [1, grid_size - 1) is undone, reflected and clamped to [1, grid_size - 2]
KeepInside(h, m) ==
    LET min_b == 1 * PosScale
        max_b == (config.grid_size - 2) * PosScale
        rx == IF h.x <= min_b THEN min_b ELSE IF h.x >= max_b THEN max_b ELSE h.x
        ry == IF h.y <= min_b THEN min_b ELSE IF h.y >= max_b THEN max_b ELSE h.y
        angle2 == IF h.x <= min_b \/ h.x >= max_b THEN ReflectX(m.angle) ELSE m.angle
        angle3 == IF h.y <= min_b \/ h.y >= max_b THEN ReflectY(angle2) ELSE angle2
    IN IF m.x < min_b \/ m.x >= (config.grid_size - 1) * PosScale
          \/ m.y < min_b \/ m.y >= (config.grid_size - 1) * PosScale
       THEN [x |-> Clamp(rx + DispX(angle3, config.step_size), min_b, max_b),
             y |-> Clamp(ry + DispY(angle3, config.step_size), min_b, max_b),
             angle |-> angle3]
       ELSE m

\* the agent's position and heading after the move of this tick
Moved(idx, h, snap, grid, heading) ==
    Bind(NeighbourScan(idx, h, h.x + DispX(heading, config.step_size),
                       h.y + DispY(heading, config.step_size), snap, grid),
         LAMBDA scan :
    Bind(Advance(h, heading, scan.neighbor_count),
         LAMBDA m :
    Bind(AvoidObstacle(h, m),
         LAMBDA o : KeepInside(h, o))))

\* the energy after uptake if the sum were not capped
UptakeEnergyUncapped(energy, absorbed) == energy + absorbed

\* h.energy = (h.energy + absorbed).min(1.0)
UptakeEnergy(energy, absorbed) == Min(energy + absorbed, EScale)

\* the sugar removed if the whole absorbed amount were taken from the sugar
SugarAbsorbWhole(absorbed, sugar, total_nutrient) == IF sugar > 0 THEN absorbed ELSE 0

\* sugar_absorb = (absorbed * sugar / total_nutrient).min(sugar), if sugar > 0.0
SugarAbsorb(absorbed, sugar, total_nutrient) ==
    IF sugar > 0 THEN Min(TruncDiv(absorbed * sugar, total_nutrient), sugar) ELSE 0

\* nitrogen_absorb = (absorbed * nitrogen * 0.5 / total_nutrient).min(nitrogen), if nitrogen > 0.0
NitrogenAbsorb(absorbed, nitrogen, total_nutrient) ==
    IF nitrogen > 0 THEN Min(TruncDiv(absorbed * nitrogen, 2 * total_nutrient), nitrogen) ELSE 0

\* uptake at the cell (xi, yi) = (h.x as usize, h.y as usize): the agent's energy
\* and strength and the grid after it; ok is FALSE when the cell is off the grid
Uptake(nut, h, cell) ==
    IF cell \notin Cells(config.grid_size)
    THEN [energy |-> h.energy, strength |-> h.strength, nutrients |-> nut, ok |-> FALSE]
    ELSE LET sugar == nut.sugar[cell]
             nitrogen == nut.nitrogen[cell]
             total_nutrient == sugar + nitrogen \div 2
             absorbed == Min(total_nutrient, config.nutrient_decay)
             sugar_absorb == SugarAbsorb(absorbed, sugar, total_nutrient)
             nitrogen_absorb == NitrogenAbsorb(absorbed, nitrogen, total_nutrient)
         IN IF total_nutrient > EScale \div 1000
            THEN [energy |-> UptakeEnergy(h.energy, absorbed),
                  strength |-> IF config.memory_enabled /\ absorbed > EScale \div 1000
                                    /\ config.adaptive_growth_enabled
                               THEN Min(h.strength + absorbed \div 10, EScale) ELSE h.strength,
                  nutrients |-> [sugar |-> [nut.sugar EXCEPT ![cell] = @ - sugar_absorb],
                                 nitrogen |-> [nut.nitrogen EXCEPT ![cell] = @ - nitrogen_absorb]],
                  ok |-> TRUE]
            ELSE [energy |-> h.energy, strength |-> h.strength, nutrients |-> nut, ok |-> TRUE]

\* h.energy *= energy_decay_rate
DecayEnergy(energy) == Scaled(energy, config.energy_decay_rate, EScale)

\* the test if every parent index passed it
ParentUnchecked(parent_idx, snap) == TRUE

\* if parent_idx < hyphae_positions.len()
ParentInSnapshot(parent_idx, snap) == parent_idx < Len(snap)

\* the amount the agent queues for its parent; 0 when nothing is queued
ParentTransfer(h, snap) ==
    IF h.parent # None /\ ParentInSnapshot(h.parent, snap) /\ InRange(snap, h.parent)
    THEN LET pe == At(snap, h.parent)
             d2 == Dist2(h.x, h.y, pe.x, pe.y)
         IN IF pe.alive /\ d2 < parent_max_dist * parent_max_dist
            THEN Clamp(TruncDiv((h.energy - pe.energy) * (parent_max_dist - Isqrt(d2)),
                                parent_max_dist * 1000),
                       -(EScale \div 100), EScale \div 100)
            ELSE 0
    ELSE 0

\* the amount computed from the data of agent h.parent itself as they were
\* before the pass over hs
TransferFromParent(h, hs) ==
    ParentTransfer(h, [k \in 1 .. Len(hs) |->
                         [x |-> hs[k].x, y |-> hs[k].y, alive |-> hs[k].alive,
                          energy |-> hs[k].energy, parent |-> hs[k].parent]])

\* parent: Some(idxp) with idxp = hyphae_len
BranchParent(idx, hyphae_len) == hyphae_len

\* x, y of a branch: the parent's position plus the offset along branch_angle
BranchPosition(px, py, angle) ==
    [x |-> px + DispX(angle, branch_offset_distance),
     y |-> py + DispY(angle, branch_offset_distance)]

\* the agent pushed to new_hyphae by agent idx, whose state after decay is h
Branch(h, idx, hyphae_len, angle) ==
    [x |-> BranchPosition(h.x, h.y, angle).x, y |-> BranchPosition(h.x, h.y, angle).y,
     alive |-> TRUE, energy |-> h.energy \div 2, parent |-> BranchParent(idx, hyphae_len),
     age |-> 0, strength |-> Scaled(h.strength, 8, 10)]

\* outcomes of rng.gen::<f32>() < branch_prob followed by the angle draw
BranchDraws ==
    (IF FALSE \in Chance(config.branch_prob) THEN {[branch |-> FALSE, turn |-> 0]} ELSE {})
        \cup (IF TRUE \in Chance(config.branch_prob)
              THEN {[branch |-> TRUE, turn |-> t] : t \in BranchTurns} ELSE {})

\* outcomes of rng.gen::<f32>() < death_probability (death_probability is at
\* least senescence_base_probability and far below 1)
SenescenceDraws == IF config.senescence_base_probability > 0 THEN {TRUE, FALSE} ELSE {FALSE}

\* if h.energy < min_energy_to_live { h.alive = false; continue; }
Starved(energy) == energy < config.min_energy_to_live

\* the rest of the agent's turn once it has moved to m and taken up u;
\* g is the agent after decay and ageing
Settle(p, idx, g, m, u, snap, hyphae_len, d) ==
    IF Starved(g.energy)
          \/ (config.senescence_enabled /\ g.age >= config.senescence_min_age /\ d.senesce)
    THEN [p EXCEPT !.hyphae[idx + 1] = [g EXCEPT !.alive = FALSE],
                   !.nutrients = u.nutrients,
                   !.oob = @ \/ ~u.ok,
                   !.ev.died = @ + 1]
    ELSE Bind(ParentTransfer(g, snap),
              LAMBDA transfer :
         Bind((config.max_hyphae_branching_threshold > 0
                   => hyphae_len < config.max_hyphae_branching_threshold) /\ d.branch.branch,
              LAMBDA branches :
                [p EXCEPT !.hyphae[idx + 1] =
                              [g EXCEPT !.energy = IF branches THEN @ \div 2 ELSE @],
                          !.nutrients = u.nutrients,
                          !.oob = @ \/ ~u.ok
                                    \/ (g.parent # None /\ ParentInSnapshot(g.parent, snap)
                                          /\ ~InRange(snap, g.parent)),
                          !.transfers = IF transfer # 0
                                        THEN Append(@, <<idx, g.parent, transfer>>) ELSE @,
                          !.new_hyphae =
                              IF branches
                              THEN Append(@, Branch(g, idx, hyphae_len, m.angle + d.branch.turn + 8))
                              ELSE @,
                          !.ev.branched = @ + (IF branches THEN 1 ELSE 0),
                          !.ev.in_obstacle =
                              @ + (IF <<m.x, m.y>> # <<At(p.hyphae, idx).x, At(p.hyphae, idx).y>>
                                        /\ <<CellOf(m.x), CellOf(m.y)>> \in obstacles
                                   THEN 1 ELSE 0),
                          !.ev.misparented =
                              @ + (IF branches /\ BranchParent(idx, hyphae_len) # idx
                                   THEN 1 ELSE 0),
                          !.ev.mistransferred =
                              @ + (IF transfer # TransferFromParent(g, p.start) THEN 1 ELSE 0),
                          !.ev.max_transfer = Max(@, Abs(transfer)),
                          !.ev.stale_skipped =
                              @ + (IF g.parent # None /\ ~InRange(snap, g.parent) THEN 1 ELSE 0)]))

\* the turn of agent idx; d holds its draws
AgentStep(p, idx, snap, grid, hyphae_len, d) ==
    IF ~At(p.hyphae, idx).alive THEN p
    ELSE Bind(Moved(idx, At(p.hyphae, idx), snap, grid, d.heading),
              LAMBDA m :
         Bind(Uptake(p.nutrients, At(p.hyphae, idx), <<CellOf(m.x), CellOf(m.y)>>),
              LAMBDA u :
         Bind([At(p.hyphae, idx) EXCEPT !.x = m.x, !.y = m.y,
                                        !.energy = DecayEnergy(u.energy),
                                        !.age = @ + 1, !.strength = u.strength],
              LAMBDA g : Settle(p, idx, g, m, u, snap, hyphae_len, d))))

\* (h.x, h.y, h.alive, h.energy, h.parent)
SnapshotEntry(h) ==
    [x |-> h.x, y |-> h.y, alive |-> h.alive, energy |-> h.energy, parent |-> h.parent]

\* hyphae_positions[j] does not hold the data of agent j of hs: those of a
\* live agent differ, or a dead agent is found alive
Misread(hs, snap, j) ==
    IF At(hs, j).alive THEN At(snap, j) # SnapshotEntry(At(hs, j)) ELSE At(snap, j).alive

\* the indices the neighbour scan of agent idx looks up in the snapshot: the
\* bucket entries up to the first collision
ScanReads(idx, h, heading, snap, grid) ==
    Bind(SelectSeq(NeighbourBuckets(grid, BucketOf(h.x), BucketOf(h.y), 0),
                   LAMBDA o : o # idx /\ o < Len(snap)),
         LAMBDA raw :
    Bind({k \in 1 .. Len(raw) :
             LET d == Dist2(h.x + DispX(heading, config.step_size),
                            h.y + DispY(heading, config.step_size),
                            At(snap, raw[k]).x, At(snap, raw[k]).y)
             IN /\ At(snap, raw[k]).alive
                /\ d < config.hyphae_avoidance_distance * config.hyphae_avoidance_distance
                /\ d > 0},
         LAMBDA hits :
           {raw[k] : k \in {m \in 1 .. Len(raw) : \A n \in hits : m <= n}}))

\* the number of lookups of the pass over hs that read the data of another
\* agent: in the neighbour scans, and in the parent transfer of the agents
\* that are alive after their turn (p is the record after the pass)
PassMisreads(hs, p, snap, grid, draws) ==
    SumSeq([k \in 1 .. Len(hs) |->
        IF ~hs[k].alive THEN 0
        ELSE Cardinality({o \in ScanReads(k - 1, hs[k], draws[k].heading, snap, grid) :
                            Misread(hs, snap, o)})
               + (IF p.hyphae[k].alive /\ hs[k].parent # None
                       /\ ParentInSnapshot(hs[k].parent, snap) /\ InRange(snap, hs[k].parent)
                       /\ Misread(hs, snap, hs[k].parent)
                  THEN 1 ELSE 0)])

RECURSIVE AgentPass(_, _, _, _, _, _)
\* draws[idx + 1] holds the draws of agent idx
AgentPass(p, idx, snap, grid, hyphae_len, draws) ==
    IF idx >= hyphae_len THEN p
    ELSE Bind(AgentStep([p EXCEPT !.ev.early_transfers =
                                     @ + (IF At(p.hyphae, idx).energy # At(p.start, idx).energy
                                          THEN 1 ELSE 0)],
                        idx, snap, grid, hyphae_len, draws[idx + 1]),
              LAMBDA q : AgentPass(q, idx + 1, snap, grid, hyphae_len, draws))

NoBranch == [branch |-> FALSE, turn |-> 0]

\* the draws agent h can make in a pass over hyphae_len agents
AgentDraws(h, hyphae_len) ==
    IF ~h.alive THEN {[heading |-> 0, branch |-> NoBranch, senesce |-> FALSE]}
    ELSE [heading : Headings,
          branch : IF config.max_hyphae_branching_threshold > 0
                       => hyphae_len < config.max_hyphae_branching_threshold
                    THEN BranchDraws ELSE {NoBranch},
          senesce : IF config.senescence_enabled /\ h.age + 1 >= config.senescence_min_age
                    THEN SenescenceDraws ELSE {FALSE}]

RECURSIVE SeqsOver(_)
\* all sequences that take their k-th element from the k-th set
SeqsOver(sets) ==
    IF sets = <<>> THEN {<<>>}
    ELSE {<<x>> \o r : x \in Head(sets), r \in SeqsOver(Tail(sets))}

\* self.state.hyphae[from].energy = (… - amount).clamp(0.0, 1.0), and to
ClampEnergy(e) == Clamp(e, 0, EScale)

\* one queued transfer (from, to, amount), applied if both indices are in range
ApplyTransfer(hs, t) ==
    IF t[1] < Len(hs) /\ t[2] < Len(hs)
    THEN Bind([hs EXCEPT ![t[1] + 1].energy = ClampEnergy(@ - t[3])],
              LAMBDA h1 : [h1 EXCEPT ![t[2] + 1].energy = ClampEnergy(@ + t[3])])
    ELSE hs

RECURSIVE ApplyTransfers(_, _)
ApplyTransfers(hs, ts) ==
    IF ts = <<>> THEN hs
    ELSE Bind(ApplyTransfer(hs, Head(ts)), LAMBDA h : ApplyTransfers(h, Tail(ts)))

(***************************************************************************)
(* Fusion.  The working record w carries the collections of the state, the *)
(* spatial grid, oob and the event counters of the tick.                   *)
(***************************************************************************)
ConnectionKey(c) == IF c.hypha1 < c.hypha2 THEN <<c.hypha1, c.hypha2>>
                    ELSE <<c.hypha2, c.hypha1>>

Involves(c, j) == c.hypha1 = j \/ c.hypha2 = j

\* "Remove any connections involving j": from the list, in reverse order
RemoveConnectionsOf(conns, j) ==
    Bind(SetToSeqDesc({k \in Indices(conns) : Involves(At(conns, k), j)}),
         LAMBDA idxs : RemoveDescChecked(conns, idxs))

\* the set if the keys of the removed connections stayed in it
KeysKept(conns, set, j) == set

\* "Remove from connection set"
RemoveKeysOf(conns, set, j) ==
    set \ {ConnectionKey(At(conns, k)) : k \in {m \in Indices(conns) : Involves(At(conns, m), j)}}

\* "Update connection indices: replace j with i in remaining connections"
Repoint(conns, j, i) ==
    [k \in 1 .. Len(conns) |->
        [conns[k] EXCEPT !.hypha1 = IF @ = j THEN i ELSE @,
                         !.hypha2 = IF @ = j THEN i ELSE @]]

\* the connections of conns between the agents i and j
Between(conns, i, j) ==
    {k \in Indices(conns) : Involves(At(conns, k), j) /\ Involves(At(conns, k), i)}

\* the number of connections between the absorbed agent j and agents other
\* than its absorber i that are in conns and no longer in the list after
\* the absorption
Severed(conns, after, i, j) == Len(conns) - Cardinality(Between(conns, i, j)) - Len(after)

\* the greatest number of agents one agent absorbed, from the pairs <<i, j>>
MostAbsorbed(absorbed) ==
    Bind({Cardinality({k \in 1 .. Len(absorbed) : absorbed[k][1] = absorbed[m][1]}) :
            m \in 1 .. Len(absorbed)},
         LAMBDA counts : IF counts = {} THEN 0 ELSE CHOOSE v \in counts : \A u \in counts : v >= u)

\* self.state.hyphae[i].energy = (energy + energy_transfer).min(1.0)
FusedEnergy(energy, energy_transfer) == Min(energy + energy_transfer, EScale)

\* agent i absorbs agent j; (h1_x, h1_y) is i's position captured before the scan
Absorb(f, i, j, h1_x, h1_y) ==
    Bind(RemoveConnectionsOf(f.connections, j),
         LAMBDA kept :
           [f EXCEPT !.hyphae[i + 1] =
                         [@ EXCEPT !.x = (h1_x + At(f.hyphae, j).x) \div 2,
                                   !.y = (h1_y + At(f.hyphae, j).y) \div 2,
                                   !.strength = Max(@, At(f.hyphae, j).strength),
                                   !.energy = FusedEnergy(@, Scaled(At(f.hyphae, j).energy,
                                                                   config.fusion_energy_transfer,
                                                                   EScale))],
                     !.to_remove = @ \cup {j},
                     !.connection_set = RemoveKeysOf(f.connections, @, j),
                     !.connections = Repoint(kept, j, i),
                     !.absorbed = Append(@, <<i, j>>),
                     !.severed = @ + Severed(f.connections, Repoint(kept, j, i), i, j)])

\* the buckets (bx-1).max(0)..=(bx+1).min(nx-1) x the same for y, in scan order
FusionBuckets(grid, bx, by) ==
    LET nx == spatial_grid_nx(config)
    IN Flatten([a \in 1 .. 3 |->
         Flatten([b \in 1 .. 3 |->
            IF bx + a - 2 >= Max(bx - 1, 0) /\ bx + a - 2 <= Min(bx + 1, nx - 1)
                  /\ by + b - 2 >= Max(by - 1, 0) /\ by + b - 2 <= Min(by + 1, nx - 1)
            THEN <<grid[<<bx + a - 2, by + b - 2>>]>> ELSE <<>>])])

\* agent j can be absorbed by agent i, whose captured position is (h1_x, h1_y)
CanFuse(f, i, j, h1_x, h1_y) ==
    /\ j > i /\ j \notin f.to_remove
    /\ InRange(f.hyphae, j)
    /\ At(f.hyphae, j).alive
    /\ Dist2(h1_x, h1_y, At(f.hyphae, j).x, At(f.hyphae, j).y)
          < config.fusion_distance * config.fusion_distance
    /\ At(f.hyphae, i).age >= config.fusion_min_age
    /\ At(f.hyphae, j).age >= config.fusion_min_age

\* the bucket holds an index beyond the collection that the scan would read
ReadsBeyond(f, i, bucket) ==
    \E k \in 1 .. Len(bucket) :
        bucket[k] > i /\ bucket[k] \notin f.to_remove /\ ~InRange(f.hyphae, bucket[k])

\* in one bucket agent i absorbs the first agent it can fuse with
FuseBucket(f, i, bucket, h1_x, h1_y) ==
    Bind(SelectSeq(bucket, LAMBDA j : CanFuse(f, i, j, h1_x, h1_y)),
         LAMBDA cands :
           IF ReadsBeyond(f, i, bucket) THEN [f EXCEPT !.oob = TRUE]
           ELSE IF cands = <<>> THEN f
           ELSE Absorb(f, i, Head(cands), h1_x, h1_y))

RECURSIVE FuseBuckets(_, _, _, _, _, _)
\* the `break` leaves one bucket only: the scan goes on with the next bucket
FuseBuckets(f, i, bs, k, h1_x, h1_y) ==
    IF k > Len(bs) THEN f
    ELSE Bind(FuseBucket(f, i, bs[k], h1_x, h1_y),
              LAMBDA g : FuseBuckets(g, i, bs, k + 1, h1_x, h1_y))

\* the turn of agent i in the fusion scan
FuseAgent(f, i, grid) ==
    IF i \in f.to_remove \/ ~At(f.hyphae, i).alive THEN f
    ELSE Bind(FusionBuckets(grid, BucketOf(At(f.hyphae, i).x), BucketOf(At(f.hyphae, i).y)),
              LAMBDA bs : FuseBuckets(f, i, bs, 1, At(f.hyphae, i).x, At(f.hyphae, i).y))

RECURSIVE FusionPass(_, _, _)
FusionPass(f, i, grid) ==
    IF i >= Len(f.hyphae) THEN f
    ELSE Bind(FuseAgent(f, i, grid), LAMBDA g : FusionPass(g, i + 1, grid))

\* the fusion scan over the grid of the agent pass, then the removal of the
\* absorbed agents, highest index first
Fusion(w, grid) ==
    IF ~config.fusion_enabled THEN w
    ELSE Bind(FusionPass([hyphae |-> w.hyphae, connections |-> w.connections,
                          connection_set |-> w.connection_set, to_remove |-> {},
                          absorbed |-> <<>>, severed |-> 0, oob |-> w.oob], 0, grid),
              LAMBDA f :
         Bind(SetToSeqDesc(f.to_remove),
              LAMBDA idxs :
                [w EXCEPT !.hyphae = RemoveDescChecked(f.hyphae, idxs),
                          !.connections = f.connections,
                          !.connection_set = f.connection_set,
                          !.oob = f.oob,
                          !.ev.fused = Len(f.absorbed),
                          !.ev.severed = f.severed,
                          !.ev.absorbed_by_one = MostAbsorbed(f.absorbed),
                          !.ev.repointed = @ + RepointedRefs(f.hyphae, f.connections, idxs)]))

(***************************************************************************)
(* Connection formation (anastomosis) over the rebuilt spatial grid.       *)
(***************************************************************************)
\* the buckets bx.max(0)..=(bx+1).min(nx-1) x the same for y, flattened
FormationCandidates(grid, bx, by) ==
    LET nx == spatial_grid_nx(config)
    IN Flatten([a \in 1 .. 2 |->
         Flatten([b \in 1 .. 2 |->
            IF bx + a - 1 >= Max(bx, 0) /\ bx + a - 1 <= Min(bx + 1, nx - 1)
                  /\ by + b - 1 >= Max(by, 0) /\ by + b - 1 <= Min(by + 1, nx - 1)
            THEN grid[<<bx + a - 1, by + b - 1>>] ELSE <<>>])])

\* the skip if it only left out the agent itself
PairExaminedBothWays(i, j) == j # i

\* `if j <= i { continue; }`: only pairs with j > i are examined
PairExamined(i, j) == j > i

\* agent j is a live agent within anastomosis distance of agent i
Near(hs, i, j) ==
    /\ PairExamined(i, j)
    /\ InRange(hs, j)
    /\ At(hs, j).alive
    /\ Dist2(At(hs, i).x, At(hs, i).y, At(hs, j).x, At(hs, j).y)
          < config.anastomosis_distance * config.anastomosis_distance

\* the pairs (i, j) the scan finds within anastomosis distance, in scan order
ClosePairs(hs, grid) ==
    Flatten([k \in 1 .. Len(hs) |->
       IF ~hs[k].alive THEN <<>>
       ELSE Bind(SelectSeq(FormationCandidates(grid, BucketOf(hs[k].x), BucketOf(hs[k].y)),
                           LAMBDA j : Near(hs, k - 1, j)),
                 LAMBDA c : [m \in 1 .. Len(c) |-> <<k - 1, c[m]>>])])

\* `if !self.state.connection_set.contains(&key)`
KeyAbsent(set, key) == key \notin set

NewConnection(i, j) ==
    [hypha1 |-> i, hypha2 |-> j, strength |-> config.min_connection_strength,
     flow_accumulator |-> 0]

\* the pair (i, j) becomes a connection unless its key is in the set; a
\* transfer is queued when the energies differ by more than 0.1
FormPair(w, i, j) ==
    IF KeyAbsent(w.connection_set, <<i, j>>)
    THEN [w EXCEPT !.connection_set = @ \cup {<<i, j>>},
                   !.connections = Append(@, NewConnection(i, j)),
                   !.new_connections =
                       IF Abs(At(w.hyphae, i).energy - At(w.hyphae, j).energy) > EScale \div 10
                       THEN Append(@, <<i, j, TruncDiv(At(w.hyphae, i).energy
                                                          - At(w.hyphae, j).energy, 10)>>)
                       ELSE @,
                   !.ev.formed = @ + 1]
    ELSE w

RECURSIVE FormPairs(_, _, _)
FormPairs(w, pairs, k) ==
    IF k > Len(pairs) THEN w
    ELSE Bind(FormPair(w, pairs[k][1], pairs[k][2]), LAMBDA g : FormPairs(g, pairs, k + 1))

\* the grid holds an index beyond the collection
GridBeyond(hs, grid) ==
    \E b \in DOMAIN grid : \E k \in 1 .. Len(grid[b]) : ~InRange(hs, grid[b][k])

\* the pairs of live agents inside the grid and within anastomosis distance,
\* lower index first, whose key is not in the set
Unlinked(hs, set) ==
    {p \in Indices(hs) \X Indices(hs) :
        /\ p[1] < p[2]
        /\ At(hs, p[1]).alive /\ At(hs, p[2]).alive
        /\ in_bounds(At(hs, p[1]).x, At(hs, p[1]).y, config.grid_size)
        /\ in_bounds(At(hs, p[2]).x, At(hs, p[2]).y, config.grid_size)
        /\ Dist2(At(hs, p[1]).x, At(hs, p[1]).y, At(hs, p[2]).x, At(hs, p[2]).y)
              < config.anastomosis_distance * config.anastomosis_distance
        /\ p \notin set}

Formation(w, grid) ==
    IF GridBeyond(w.hyphae, grid) THEN [w EXCEPT !.oob = TRUE]
    ELSE Bind(ClosePairs(w.hyphae, grid),
              LAMBDA pairs :
         Bind(FormPairs([hyphae |-> w.hyphae, connections |-> w.connections,
                         connection_set |-> w.connection_set, new_connections |-> <<>>,
                         ev |-> w.ev], pairs, 1),
              LAMBDA f :
                [w EXCEPT !.hyphae = ApplyTransfers(f.hyphae, f.new_connections),
                          !.connections = f.connections,
                          !.connection_set = f.connection_set,
                          !.ev = [f.ev EXCEPT !.unlinked =
                                      Cardinality(Unlinked(f.hyphae, f.connection_set))]]))

(***************************************************************************)
(* Clean-up of connections with a missing or dead endpoint.                *)
(***************************************************************************)
\* the test if a missing endpoint counted as alive: unwrap_or(true)
EndpointAliveOrMissing(hs, e) == ~InRange(hs, e) \/ At(hs, e).alive

\* self.state.hyphae.get(c.hypha1).map(|h| h.alive).unwrap_or(false)
EndpointAlive(hs, e) == InRange(hs, e) /\ At(hs, e).alive

DeadConnections(w) ==
    {k \in Indices(w.connections) :
        \/ ~EndpointAlive(w.hyphae, At(w.connections, k).hypha1)
        \/ ~EndpointAlive(w.hyphae, At(w.connections, k).hypha2)}

\* removal of the connections at the given indices, last index first, each
\* with its key: connection_set.remove(&key); connections.swap_remove(idx)
RemoveWithKeys(w, idxs) ==
    Bind(SetToSeqDesc(idxs),
         LAMBDA desc :
           [w EXCEPT !.connection_set = @ \ {ConnectionKey(At(w.connections, k)) : k \in idxs},
                     !.connections = RemoveDescChecked(@, desc)])

CleanUp(w) ==
    Bind(DeadConnections(w),
         LAMBDA dead : [RemoveWithKeys(w, dead) EXCEPT !.ev.cleaned = Cardinality(dead)])

(***************************************************************************)
(* Flow along connections, reinforcement and decay of their strength.      *)
(***************************************************************************)
\* flow = (base_flow * c.strength).clamp(-0.02, 0.02)
max_flow == (2 * EScale) \div 100

\* the reinforcement if the sum were not capped
ReinforcedUncapped(strength, abs_flow) ==
    strength + Scaled(abs_flow, config.flow_strengthening_rate, EScale)

\* new_strength = (new_strength + abs_flow * flow_strengthening_rate).min(1.0)
Reinforced(strength, abs_flow) ==
    Min(strength + Scaled(abs_flow, config.flow_strengthening_rate, EScale), EScale)

\* new_strength *= flow_decay_rate; new_strength = new_strength.max(min_connection_strength)
Decayed(strength) ==
    Max(Scaled(strength, config.flow_decay_rate, EScale), config.min_connection_strength)

\* the flow if it were not scaled by the strength of the connection
FlowUnscaled(c, h1, h2) ==
    Clamp(Scaled(h1.energy - h2.energy, config.connection_flow_rate, EScale),
          -max_flow, max_flow)

\* the flow from agent i to agent j along connection c
Flow(c, h1, h2) ==
    Clamp(Scaled(Scaled(h1.energy - h2.energy, config.connection_flow_rate, EScale),
                 c.strength, EScale),
          -max_flow, max_flow)

\* the connection after a flow of the given size
Adapted(c, abs_flow) ==
    [c EXCEPT !.strength = IF ~config.adaptive_growth_enabled THEN @
                           ELSE IF abs_flow > EScale \div 1000 THEN Reinforced(@, abs_flow)
                           ELSE Decayed(@),
              !.flow_accumulator = IF config.adaptive_growth_enabled
                                   THEN Scaled(@ + abs_flow, 99, 100) ELSE @ + abs_flow]

\* the turn of connection k (0-based) in the flow pass; i < j are its endpoints
FlowStep(w, k, i, j) ==
    IF j >= Len(w.hyphae) THEN w
    ELSE IF i >= j \/ i < 0 THEN [w EXCEPT !.oob = TRUE]
    ELSE IF ~At(w.hyphae, i).alive \/ ~At(w.hyphae, j).alive THEN w
    ELSE Bind(Flow(At(w.connections, k), At(w.hyphae, i), At(w.hyphae, j)),
              LAMBDA flow :
                [w EXCEPT !.hyphae[i + 1].energy = ClampEnergy(@ - flow),
                          !.hyphae[j + 1].energy = ClampEnergy(@ + flow),
                          !.connections[k + 1] = Adapted(@, Abs(flow)),
                          !.ev.flowed = @ + Abs(flow)])

RECURSIVE FlowPass(_, _)
FlowPass(w, k) ==
    IF k >= Len(w.connections) THEN w
    ELSE Bind(FlowStep(w, k, Min(At(w.connections, k).hypha1, At(w.connections, k).hypha2),
                       Max(At(w.connections, k).hypha1, At(w.connections, k).hypha2)),
              LAMBDA g : FlowPass(g, k + 1))

(***************************************************************************)
(* Pruning of weak connections and weak agents (adaptive growth).          *)
(***************************************************************************)
WeakConnections(w) ==
    {k \in Indices(w.connections) : At(w.connections, k).strength < config.pruning_threshold}

PruneHypha(h) ==
    IF h.alive /\ h.strength < config.pruning_threshold \div 2
          /\ h.energy < 2 * config.min_energy_to_live
    THEN [h EXCEPT !.strength = Scaled(@, 9, 10),
                   !.alive = ~(Scaled(h.strength, 9, 10) < EScale \div 100)]
    ELSE h

Pruning(w) ==
    IF ~config.adaptive_growth_enabled THEN w
    ELSE Bind(WeakConnections(w),
              LAMBDA weak :
         Bind(RemoveWithKeys(w, weak),
              LAMBDA w1 :
                [w1 EXCEPT !.hyphae = [k \in 1 .. Len(w1.hyphae) |-> PruneHypha(w1.hyphae[k])],
                           !.ev.pruned = Cardinality(weak)]))

(***************************************************************************)
(* Nutrient grid: diffusion, regeneration, injection.                      *)
(***************************************************************************)
\* NutrientGrid::total_at
total_at(nut, c) == nut.sugar[c] + nut.nitrogen[c] \div 2

\* NutrientGrid::add_sugar / add_nitrogen: (value + amount).min(1.0)
add_amount(field, c, amount) == [field EXCEPT ![c] = Min(@ + amount, EScale)]

\* least and greatest element of a finite set of integers, started from d
LeastOf(S, d) == IF S = {} THEN d ELSE Min(d, CHOOSE v \in S : \A u \in S : v <= u)
MostOf(S, d) == IF S = {} THEN d ELSE Max(d, CHOOSE v \in S : \A u \in S : v >= u)

\* the cells of the live agents that lie strictly inside the border
InnerCells(hs) ==
    {c \in {<<CellOf(hs[k].x), CellOf(hs[k].y)>> : k \in {m \in 1 .. Len(hs) : hs[m].alive}} :
        c[1] > 0 /\ c[2] > 0 /\ c[1] < config.grid_size - 1 /\ c[2] < config.grid_size - 1}

\* the active region x0..=x1, y0..=y1 around the live agents (pad = 6)
DiffusionBox(hs) ==
    Bind(InnerCells(hs),
         LAMBDA used :
           [x0 |-> Max(1, Max(LeastOf({c[1] : c \in used}, config.grid_size - 2) - 6, 0)),
            y0 |-> Max(1, Max(LeastOf({c[2] : c \in used}, config.grid_size - 2) - 6, 0)),
            x1 |-> Min(config.grid_size - 2, MostOf({c[1] : c \in used}, 1) + 6),
            y1 |-> Min(config.grid_size - 2, MostOf({c[2] : c \in used}, 1) + 6)])

\* back[x][y] += rate * (avg - back[x][y]), avg = (sum of the four neighbours) * 0.25
DiffuseCell(field, c, rate) ==
    [field EXCEPT ![c] =
        @ + TruncDiv(rate * (field[<<c[1] + 1, c[2]>>] + field[<<c[1] - 1, c[2]>>]
                              + field[<<c[1], c[2] + 1>>] + field[<<c[1], c[2] - 1>>] - 4 * @),
                     4 * EScale)]

RECURSIVE DiffuseCells(_, _, _, _)
\* the cells are updated in place in the back buffer, in scan order
DiffuseCells(field, cs, k, rate) ==
    IF k > Len(cs) THEN field
    ELSE Bind(DiffuseCell(field, cs[k], rate), LAMBDA f : DiffuseCells(f, cs, k + 1, rate))

\* for x in x0..=x1 { for y in y0..=y1 { … } }
BoxCells(box) ==
    Flatten([a \in 1 .. Max(box.x1 - box.x0 + 1, 0) |->
               [b \in 1 .. Max(box.y1 - box.y0 + 1, 0) |-> <<box.x0 + a - 1, box.y0 + b - 1>>]])

\* a cell of the region has a neighbour off the grid
BoxBeyond(cs) ==
    \E k \in 1 .. Len(cs) :
        \/ <<cs[k][1] + 1, cs[k][2]>> \notin Cells(config.grid_size)
        \/ <<cs[k][1] - 1, cs[k][2]>> \notin Cells(config.grid_size)
        \/ <<cs[k][1], cs[k][2] + 1>> \notin Cells(config.grid_size)
        \/ <<cs[k][1], cs[k][2] - 1>> \notin Cells(config.grid_size)

\* if get_fps() < 25.0 { frame_index % 2 == 0 } else { true }
do_diffuse(fps, frame) == IF fps < 25 THEN frame % 2 = 0 ELSE TRUE

Diffusion(w) ==
    Bind(BoxCells(DiffusionBox(w.hyphae)),
         LAMBDA cs :
           IF BoxBeyond(cs) THEN [w EXCEPT !.oob = TRUE]
           ELSE [w EXCEPT !.nutrients =
                   [sugar |-> DiffuseCells(@.sugar, cs, 1, config.diffusion_rate),
                    nitrogen |-> DiffuseCells(@.nitrogen, cs, 1,
                                              (config.diffusion_rate * 7) \div 10)]])

\* outcomes of the draws x, y = rng.gen_range(1..grid_limit) used by the model
RegenCells == {<<1, 1>>, <<3, 3>>}

RegenDraws ==
    IF config.nutrient_regen_rate > 0 /\ config.nutrient_regen_samples > 0
    THEN [1 .. config.nutrient_regen_samples -> RegenCells] ELSE {<<>>}

\* if *sugar < floor { *sugar = (*sugar + regen_rate).min(floor); }
RegenValue(v, rate, floor) == IF v < floor THEN Min(v + rate, floor) ELSE v

\* one sample of the regeneration at cell c
Regenerate(nut, c) ==
    [sugar |-> [nut.sugar EXCEPT
                   ![c] = RegenValue(@, config.nutrient_regen_rate, config.nutrient_regen_floor)],
     nitrogen |-> [nut.nitrogen EXCEPT
                   ![c] = RegenValue(@, (config.nutrient_regen_rate * 6) \div 10,
                                     (config.nutrient_regen_floor * 6) \div 10)]]

RECURSIVE Regeneration(_, _, _)
Regeneration(nut, draws, k) ==
    IF k > Len(draws) THEN nut
    ELSE Bind(Regenerate(nut, draws[k]), LAMBDA n : Regeneration(n, draws, k + 1))

(***************************************************************************)
(* Spores: drift, death at the border, germination.                        *)
(***************************************************************************)
SporeStep(nut, sp) ==
    LET G == config.grid_size
        nx == sp.x + sp.vx
        ny == sp.y + sp.vy
        out == nx < PosScale \/ nx >= (G - 1) * PosScale
                 \/ ny < PosScale \/ ny >= (G - 1) * PosScale
        moved == [sp EXCEPT !.x = nx, !.y = ny, !.age = @ + 1]
        cell == <<CellOf(nx), CellOf(ny)>>
        germinates == ~out /\ cell \in Cells(G)
                         /\ total_at(nut, cell) > config.spore_germination_threshold
    IN IF ~sp.alive THEN [spore |-> sp, born |-> <<>>, bad |-> FALSE]
       ELSE IF out THEN [spore |-> [moved EXCEPT !.alive = FALSE], born |-> <<>>, bad |-> FALSE]
       ELSE [spore |-> [moved EXCEPT !.alive = ~germinates],
             born |-> IF germinates THEN <<NewHypha(nx, ny)>> ELSE <<>>,
             bad |-> cell \notin Cells(G)]

SporePass(w) ==
    Bind([k \in 1 .. Len(w.spores) |-> SporeStep(w.nutrients, w.spores[k])],
         LAMBDA res :
    Bind(Flatten([k \in 1 .. Len(res) |-> res[k].born]),
         LAMBDA born :
           [w EXCEPT !.hyphae = @ \o born,
                     !.spores = SelectSeq([k \in 1 .. Len(res) |-> res[k].spore],
                                          LAMBDA sp : sp.alive /\ sp.age < config.spore_max_age),
                     !.oob = @ \/ (\E k \in 1 .. Len(res) : res[k].bad),
                     !.ev.germinated = Len(born)]))

(***************************************************************************)
(* Fruiting: trigger, site search, spawn decision, spawn_fruit_body_at.    *)
(***************************************************************************)
\* 1000 * sqrt(d2), for d2 a squared distance in whole cells
DistMilli(d2) == Isqrt(d2 * 1000000)

LiveHyphae(hs) == SelectSeq(hs, LAMBDA h : h.alive)

\* total_energy: the sum of the energy of the live agents
TotalEnergy(hs) == SumSeq([k \in 1 .. Len(hs) |-> IF hs[k].alive THEN hs[k].energy ELSE 0])

\* the trigger if it did not wait for the cooldown
FruitingTriggeredInCooldown(hs, cooldown) ==
    /\ Len(SelectSeq(hs, LAMBDA h : h.alive)) >= config.fruiting_min_hyphae
    /\ SumSeq([k \in 1 .. Len(hs) |-> IF hs[k].alive THEN hs[k].energy ELSE 0])
          >= config.fruiting_threshold_total_energy

\* self.state.fruit_cooldown_timer <= 0.0 && hyphae_count >= … && total_energy >= …
FruitingTriggered(hs, cooldown) ==
    /\ cooldown <= 0
    /\ Len(LiveHyphae(hs)) >= config.fruiting_min_hyphae
    /\ TotalEnergy(hs) >= config.fruiting_threshold_total_energy

\* energy-weighted centroid of the live agents, in position units
Centroid(hs) ==
    Bind(TotalEnergy(hs),
         LAMBDA te :
           IF te > 0
           THEN [x |-> RoundDiv(SumSeq([k \in 1 .. Len(hs) |->
                                          IF hs[k].alive THEN hs[k].x * hs[k].energy ELSE 0]), te),
                 y |-> RoundDiv(SumSeq([k \in 1 .. Len(hs) |->
                                          IF hs[k].alive THEN hs[k].y * hs[k].energy ELSE 0]), te)]
           ELSE IF LiveHyphae(hs) # <<>>
           THEN [x |-> LiveHyphae(hs)[1].x, y |-> LiveHyphae(hs)[1].y]
           ELSE [x |-> (config.grid_size * PosScale) \div 2,
                 y |-> (config.grid_size * PosScale) \div 2])

\* the interior cells within the search radius of (grid_x, grid_y)
SearchRing(grid_x, grid_y) ==
    {c \in Cells(config.grid_size) :
        /\ c[1] > 0 /\ c[2] > 0 /\ c[1] < config.grid_size - 1 /\ c[2] < config.grid_size - 1
        /\ Abs(c[1] - grid_x) <= 6 /\ Abs(c[2] - grid_y) <= 6
        /\ Dist2(c[1], c[2], grid_x, grid_y) <= 36}

\* the first cell in scan order among the richest cells of a non-empty set
FirstRichest(nut, cells) ==
    Bind({c \in cells : \A o \in cells : total_at(nut, o) <= total_at(nut, c)},
         LAMBDA top :
           CHOOSE c \in top : \A o \in top : c[1] < o[1] \/ (c[1] = o[1] /\ c[2] <= o[2]))

\* the cell the search settles on and its nutrient level
FruitingSite(nut, grid_x, grid_y) ==
    IF total_at(nut, <<grid_x, grid_y>>) < config.fruiting_spawn_nutrient_threshold
    THEN Bind({c \in SearchRing(grid_x, grid_y) :
                   total_at(nut, c) > total_at(nut, <<grid_x, grid_y>>)},
              LAMBDA better :
                IF better = {}
                THEN [cell |-> <<grid_x, grid_y>>, best |-> total_at(nut, <<grid_x, grid_y>>)]
                ELSE Bind(FirstRichest(nut, better),
                          LAMBDA first : [cell |-> first, best |-> total_at(nut, first)]))
    ELSE [cell |-> <<grid_x, grid_y>>, best |-> total_at(nut, <<grid_x, grid_y>>)]

\* what the search from (grid_x, grid_y) found: whether it ran, whether the
\* cell it settled on is an obstacle, and whether no unobstructed cell within
\* the radius is richer than that cell
SiteFound(nut, site, grid_x, grid_y) ==
    [searched |-> total_at(nut, <<grid_x, grid_y>>) < config.fruiting_spawn_nutrient_threshold,
     obstructed |-> site.cell \in obstacles,
     richest |-> \A c \in (SearchRing(grid_x, grid_y) \cup {<<grid_x, grid_y>>}) \ obstacles :
                    total_at(nut, c) <= site.best]

\* the nutrients a fallback spawn adds around the site (radius 2)
FallbackDeposit(nut, grid_x, grid_y) ==
    LET G == config.grid_size
        Hit(c) == /\ c[1] > 0 /\ c[2] > 0 /\ c[1] < G - 1 /\ c[2] < G - 1
                  /\ Abs(c[1] - grid_x) <= 2 /\ Abs(c[2] - grid_y) <= 2
                  /\ Dist2(c[1], c[2], grid_x, grid_y) <= 4
        falloff(c) == Max(1000 - DistMilli(Dist2(c[1], c[2], grid_x, grid_y)) \div 2, 0)
    IN [sugar |-> [c \in Cells(G) |->
                      IF Hit(c)
                      THEN Min(nut.sugar[c] + (config.nutrient_regen_rate * 4 * falloff(c)) \div 1000,
                               EScale)
                      ELSE nut.sugar[c]],
        nitrogen |-> [c \in Cells(G) |->
                      IF Hit(c)
                      THEN Min(nut.nitrogen[c] + (config.nutrient_regen_rate * 2 * falloff(c)) \div 1000,
                               EScale)
                      ELSE nut.nitrogen[c]]]

\* FruitBody { x, y, age: 0.0, energy: 0.0, lifespan, released_spores: false, … }
NewFruitBody(cx, cy, lifespan) ==
    [x |-> cx, y |-> cy, age |-> 0, energy |-> 0, lifespan |-> lifespan,
     released_spores |-> FALSE, releases |-> 0,
     next_spore_release_age |->
         Clamp(Scaled(lifespan, config.fruiting_spore_release_fraction, EScale), 0, lifespan)]

\* returns the record with spawned set; d holds the draws of the call
spawn_fruit_body_at(w, grid_x, grid_y, fallback, d) ==
    LET G == config.grid_size
        min_bound == 1 * PosScale
        max_bound == (G - 2) * PosScale
        cx == Clamp(grid_x * PosScale + d.bjx, min_bound, max_bound)
        cy == Clamp(grid_y * PosScale + d.bjy, min_bound, max_bound)
    IN IF grid_x = 0 \/ grid_y = 0 \/ grid_x >= G - 1 \/ grid_y >= G - 1
       THEN [w EXCEPT !.spawned = FALSE]
       ELSE IF <<grid_x, grid_y>> \in obstacles
       THEN [w EXCEPT !.spawned = FALSE]
       ELSE [w EXCEPT !.fruit_bodies = Append(@, NewFruitBody(cx, cy, d.lifespan)),
                      !.nutrients = IF fallback THEN FallbackDeposit(@, grid_x, grid_y) ELSE @,
                      !.cooldown = config.fruiting_cooldown,
                      !.failed = 0,
                      !.spawned = TRUE,
                      !.ev.fruited = 1]

\* outcomes of the draws of the fruiting trigger used by the model
CentroidJitter == {0}
BodyJitter == {0}
\* rng.gen_range(lifespan_min..lifespan_max): the two ends of the range
LifespanDraws ==
    IF config.fruiting_lifespan_max > config.fruiting_lifespan_min
    THEN {config.fruiting_lifespan_min, config.fruiting_lifespan_max - 1}
    ELSE {config.fruiting_lifespan_min}

NoFruitingDraw ==
    [jx |-> 0, jy |-> 0, relaxed |-> FALSE, bjx |-> 0, bjy |-> 0,
     lifespan |-> config.fruiting_lifespan_min]

\* get_fps(): 60.0 in headless mode; otherwise the frame rate macroquad
\* measured, here a slow and a fast frame
FpsReadings == IF headless_mode THEN {60} ELSE {20, 60}

\* 1.0 / fps.max(1.0) seconds, in frames of 1/60 s
CooldownDrop(fps) == 60 \div Max(fps, 1)

\* the draws are only made when the trigger fires
FruitingDraws(hs, cooldown, fps) ==
    IF FruitingTriggered(hs, Max(cooldown - CooldownDrop(fps), 0))
    THEN [jx : CentroidJitter, jy : CentroidJitter, relaxed : BOOLEAN,
          bjx : BodyJitter, bjy : BodyJitter, lifespan : LifespanDraws]
    ELSE {NoFruitingDraw}

\* the spawn decision at the site the search found
SpawnDecision(w, site, d) ==
    LET spawn_threshold == config.fruiting_spawn_nutrient_threshold
        relaxed_threshold == Min((spawn_threshold * 65) \div 100, spawn_threshold)
        attempts == w.failed + 1
        attempts_update == Min(attempts, Max(config.fruiting_failed_attempts_before_fallback, 1))
        fallback_due == attempts >= config.fruiting_failed_attempts_before_fallback
        fallback_allowed ==
            \/ site.best >= config.fruiting_fallback_threshold
            \/ /\ Len(LiveHyphae(w.hyphae)) >= config.fruiting_min_hyphae * 2
               /\ 10 * TotalEnergy(w.hyphae) >= 14 * config.fruiting_threshold_total_energy
    IN IF site.best >= spawn_threshold \/ (site.best >= relaxed_threshold /\ d.relaxed)
       THEN spawn_fruit_body_at(w, site.cell[1], site.cell[2], FALSE, d)
       ELSE IF fallback_due /\ fallback_allowed
       THEN Bind(spawn_fruit_body_at(w, site.cell[1], site.cell[2], TRUE, d),
                 LAMBDA r : IF r.spawned THEN r ELSE [r EXCEPT !.failed = attempts_update])
       ELSE [w EXCEPT !.failed = attempts_update]

\* the centroid moved by the jitter and clamped to the playable area
FruitingCentre(hs, d) ==
    Bind(Centroid(hs),
         LAMBDA c :
           [x |-> Clamp(c.x + d.jx, 1 * PosScale, (config.grid_size - 2) * PosScale),
            y |-> Clamp(c.y + d.jy, 1 * PosScale, (config.grid_size - 2) * PosScale)])

\* the cooldown runs down by 1 / fps per tick; at zero, with enough agents and
\* energy, a site is searched and a fruit body may be spawned
FruitingTrigger(w, d, fps) ==
    Bind([w EXCEPT !.cooldown = Max(@ - CooldownDrop(fps), 0), !.spawned = FALSE,
                   !.ev.fruit_guard = [cooldown |-> Max(w.cooldown - CooldownDrop(fps), 0),
                                       live |-> Len(LiveHyphae(w.hyphae)),
                                       energy |-> TotalEnergy(w.hyphae)]],
         LAMBDA w0 :
           IF ~FruitingTriggered(w0.hyphae, w0.cooldown) THEN w0
           ELSE Bind(FruitingCentre(w0.hyphae, d),
                     LAMBDA c :
                       IF ~in_bounds(c.x, c.y, config.grid_size) THEN w0
                       ELSE IF <<RoundDiv(c.x, PosScale), RoundDiv(c.y, PosScale)>>
                                  \notin Cells(config.grid_size)
                       THEN [w0 EXCEPT !.oob = TRUE]
                       ELSE Bind(FruitingSite(w0.nutrients, RoundDiv(c.x, PosScale),
                                              RoundDiv(c.y, PosScale)),
                                 LAMBDA site :
                                   SpawnDecision(
                                     [w0 EXCEPT !.ev.site =
                                         SiteFound(w0.nutrients, site,
                                                   RoundDiv(c.x, PosScale),
                                                   RoundDiv(c.y, PosScale))],
                                     site, d))))

(***************************************************************************)
(* Fruit bodies: energy transfer, spore release schedule, death.           *)
(***************************************************************************)
\* let transfer_radius = 20.0f32, in whole cells
transfer_radius == 20

\* the buckets within transfer_cell_range that exist, in scan order
FruitBuckets(grid, bx, by) ==
    LET nx == spatial_grid_nx(config)
        range == (transfer_radius * PosScale + bucket_cell_size - 1) \div bucket_cell_size
    IN Flatten([a \in 1 .. nx |->
         Flatten([b \in 1 .. nx |->
            IF a - 1 >= Max(bx - range, 0) /\ a - 1 <= Min(bx + range, nx - 1)
                 /\ b - 1 >= Max(by - range, 0) /\ b - 1 <= Min(by + range, nx - 1)
            THEN grid[<<a - 1, b - 1>>] ELSE <<>>])])

\* what one agent gives to a fruit body at (fx, fy); 0 when it gives nothing
FruitTransfer(h, fx, fy) ==
    LET d2 == Dist2(fx, fy, h.x, h.y)
        r2 == transfer_radius * transfer_radius * PosScale * PosScale
        dist == DistMilli(d2) \div PosScale
        distance_factor == Max(1000 - dist \div transfer_radius, 0)
        transfer_rate == 20000 + 60 * distance_factor
        transfer == Min((h.energy * transfer_rate) \div 1000000, (12 * EScale) \div 100)
    IN IF ~h.alive \/ h.energy < (5 * EScale) \div 100 THEN 0
       ELSE IF d2 < r2 /\ 10 * d2 > PosScale * PosScale /\ transfer > EScale \div 10000
       THEN transfer ELSE 0

\* self.state.hyphae[h_idx].energy = (energy - transfer).max(0.0)
Drained(energy, transfer) == Max(energy - transfer, 0)

\* f.energy = (f.energy + total_transfer).min(1.0); f.energy *= 0.9998
FruitEnergy(energy, total_transfer) == Scaled(Min(energy + total_transfer, EScale), 9998, 10000)

RECURSIVE ReleaseCount(_, _, _, _)
\* number of turns of the loop `while f.age >= next && next < f.lifespan`
ReleaseCount(age, next, lifespan, interval) ==
    IF age >= next /\ next < lifespan
    THEN 1 + ReleaseCount(age, next + interval, lifespan, interval) ELSE 0

\* release_interval = (fruiting_spore_release_interval.max(0.01) * f.lifespan).max(0.1)
ReleaseInterval(lifespan) ==
    Max((Max(config.fruiting_spore_release_interval, EScale \div 100) * lifespan) \div EScale, 10)

\* the test if a fruit body outlived its lifespan by a tick
ExpiredLate(age, lifespan) == age > lifespan

\* `if f.age >= f.lifespan { fruit_deaths.push(…) }`
Expired(age, lifespan) == age >= lifespan

\* the fruit body after a tick in which it received total_transfer and released n times
Ripened(f, total_transfer, n) ==
    [f EXCEPT !.age = @ + 1,
              !.energy = FruitEnergy(@, total_transfer),
              !.released_spores = @ \/ n > 0,
              !.releases = @ + n,
              !.next_spore_release_age = @ + n * ReleaseInterval(f.lifespan)]

\* the turn of fruit body k: gives[m] is what agent m - 1 gives to it
FruitStep(w, k) ==
    Bind(FruitBuckets(w.grid, BucketOf(w.fruit_bodies[k].x), BucketOf(w.fruit_bodies[k].y)),
         LAMBDA cands :
           IF \E m \in 1 .. Len(cands) : ~InRange(w.hyphae, cands[m])
           THEN [w EXCEPT !.oob = TRUE]
           ELSE
    Bind([m \in 1 .. Len(w.hyphae) |->
             IF \E c \in 1 .. Len(cands) : cands[c] = m - 1
             THEN FruitTransfer(w.hyphae[m], w.fruit_bodies[k].x, w.fruit_bodies[k].y) ELSE 0],
         LAMBDA gives :
    Bind(ReleaseCount(w.fruit_bodies[k].age + 1, w.fruit_bodies[k].next_spore_release_age,
                      w.fruit_bodies[k].lifespan, ReleaseInterval(w.fruit_bodies[k].lifespan)),
         LAMBDA n :
           [w EXCEPT !.hyphae = [m \in 1 .. Len(@) |->
                                    [@[m] EXCEPT !.energy = Drained(@, gives[m])]],
                     !.fruit_bodies[k] = Ripened(@, SumSeq(gives), n),
                     !.events = @ \o [e \in 1 .. n |-> <<w.fruit_bodies[k].x, w.fruit_bodies[k].y>>],
                     !.deaths = IF Expired(w.fruit_bodies[k].age + 1, w.fruit_bodies[k].lifespan)
                                THEN Append(@, k - 1) ELSE @])))

RECURSIVE FruitPass(_, _)
FruitPass(w, k) ==
    IF k > Len(w.fruit_bodies) \/ w.oob THEN w
    ELSE Bind(FruitStep(w, k), LAMBDA g : FruitPass(g, k + 1))

\* the nutrients a dying fruit body returns around its position (radius 3)
NutrientReturn(nut, f) ==
    LET G == config.grid_size
        nutrient_return == Scaled(f.energy, config.fruiting_nutrient_return_fraction, EScale)
        center_x == RoundDiv(f.x, PosScale)
        center_y == RoundDiv(f.y, PosScale)
        Hit(c) == /\ Abs(c[1] - center_x) <= 3 /\ Abs(c[2] - center_y) <= 3
                  /\ Dist2(c[1], c[2], center_x, center_y) <= 9
        falloff(c) == Max(1000 - DistMilli(Dist2(c[1], c[2], center_x, center_y)) \div 3, 0)
    IN IF f.energy > 0 /\ nutrient_return > 0
       THEN [sugar |-> [c \in Cells(G) |->
                          IF Hit(c)
                          THEN Min(nut.sugar[c] + (nutrient_return * 28 * falloff(c)) \div 100000,
                                   EScale)
                          ELSE nut.sugar[c]],
             nitrogen |-> [c \in Cells(G) |->
                          IF Hit(c)
                          THEN Min(nut.nitrogen[c] + (nutrient_return * 12 * falloff(c)) \div 100000,
                                   EScale)
                          ELSE nut.nitrogen[c]]]
       ELSE nut

\* a death that never asks for a final release
needs_no_final_release(f) == FALSE

\* fruit_deaths.push((idx, fx, fy, f.energy, !f.released_spores))
needs_final_release(f) == ~f.released_spores

\* the death of the fruit body at index idx
FruitDeath(w, idx) ==
    IF ~InRange(w.fruit_bodies, idx) THEN [w EXCEPT !.oob = TRUE]
    ELSE [w EXCEPT !.events = IF needs_final_release(At(w.fruit_bodies, idx))
                              THEN Append(@, <<At(w.fruit_bodies, idx).x, At(w.fruit_bodies, idx).y>>)
                              ELSE @,
                   !.ev.final_releases =
                       @ + (IF needs_final_release(At(w.fruit_bodies, idx)) THEN 1 ELSE 0),
                   !.ev.silent_deaths =
                       @ + (IF At(w.fruit_bodies, idx).releases = 0
                                 /\ ~needs_final_release(At(w.fruit_bodies, idx))
                            THEN 1 ELSE 0),
                   !.nutrients = NutrientReturn(@, At(w.fruit_bodies, idx)),
                   !.fruit_bodies = swap_remove(@, idx),
                   !.ev.fruit_died = @ + 1]

RECURSIVE FruitDeaths(_, _, _)
\* for (idx, fx, fy, energy, needs_final_release) in fruit_deaths.into_iter().rev()
FruitDeaths(w, ds, k) ==
    IF k < 1 \/ w.oob THEN w
    ELSE Bind(FruitDeath(w, ds[k]), LAMBDA g : FruitDeaths(g, ds, k - 1))

(***************************************************************************)
(* Spore release and immediate germination.                                *)
(***************************************************************************)
SporeAngles == {0, 4}
GerminationJitter == {0}

\* rng.gen_range(0.5..spore_radius), spore_radius = fruiting_spore_radius.max(1.0)
SporeDistances == (PosScale \div 2) .. (Max(config.fruiting_spore_radius, PosScale) - 1)

\* rng.gen_range(0.02..fruiting_spore_drift.max(0.05)), rounded to position units
SporeSpeeds == 0 .. Max(config.fruiting_spore_drift - 1, 0)

SporeDraws ==
    [angle : SporeAngles, distance : SporeDistances, vel_angle : SporeAngles,
     speed : SporeSpeeds, germinate : BOOLEAN, jx : GerminationJitter, jy : GerminationJitter]

\* Spore { x: sx, y: sy, vx, vy, alive: true, age: 0.0 }
NewSpore(sx, sy, vx, vy) == [x |-> sx, y |-> sy, vx |-> vx, vy |-> vy, alive |-> TRUE, age |-> 0]

\* one turn of `for _ in 0..fruiting_spore_count` for the event at (fx, fy)
ReleaseSpore(w, fx, fy, d) ==
    LET G == config.grid_size
        sx == fx + DispX(d.angle, d.distance)
        sy == fy + DispY(d.angle, d.distance)
        hx == sx + d.jx
        hy == sy + d.jy
        sprout == d.germinate /\ in_bounds(hx, hy, G)
    IN IF ~in_bounds(sx, sy, G) THEN w
       ELSE [w EXCEPT !.spores = Append(@, NewSpore(sx, sy, DispX(d.vel_angle, d.speed),
                                                     DispY(d.vel_angle, d.speed))),
                      !.hyphae = IF sprout THEN Append(@, NewHypha(hx, hy)) ELSE @,
                      !.ev.released = @ + 1,
                      !.ev.sprouted = @ + (IF sprout THEN 1 ELSE 0)]

RECURSIVE SporeRelease(_, _, _, _)
\* events: one entry per spore to release; draws: one draw per entry
SporeRelease(w, events, draws, k) ==
    IF k > Len(events) THEN w
    ELSE Bind(ReleaseSpore(w, events[k][1], events[k][2], draws[k]),
              LAMBDA g : SporeRelease(g, events, draws, k + 1))

\* every queued event releases fruiting_spore_count spores
SporeSlots(events) ==
    Flatten([e \in 1 .. Len(events) |-> [n \in 1 .. config.fruiting_spore_count |-> events[e]]])

(***************************************************************************)
(* Simulation::step: one tick.                                             *)
(***************************************************************************)
\* a counter that skips a value
NextFrameSkipping(f) == f + 2

\* self.state.frame_index.wrapping_add(1): the counter is a u64 and the model
\* stops at MaxTicks, far below the wrap
NextFrame(f) == f + 1

\* the record the agent pass works on
AgentPassStart(hs0) ==
    [hyphae |-> hs0, start |-> hs0, nutrients |-> nutrients, transfers |-> <<>>,
     new_hyphae |-> <<>>, oob |-> FALSE,
     ev |-> [NoEvents EXCEPT !.evicted = Len(hyphae) - Len(hs0),
                             !.repointed = EvictionRepoints(config, hyphae, connections)]]

\* the record the later stages work on: the queued transfers are applied and
\* the agents born in the pass are appended (self.state.hyphae.extend(new_hyphae))
AfterAgentPass(p, grid0) ==
    [hyphae |-> ApplyTransfers(p.hyphae, p.transfers) \o p.new_hyphae,
     spores |-> spores, connections |-> connections,
     connection_set |-> connection_set, fruit_bodies |-> fruit_bodies,
     nutrients |-> p.nutrients, grid |-> grid0,
     cooldown |-> fruit_cooldown_timer, failed |-> fruiting_failed_attempts,
     spawned |-> FALSE, events |-> <<>>, deaths |-> <<>>,
     oob |-> p.oob, ev |-> p.ev]

\* the stage named s has run and left w
Staged(w, s) == [w EXCEPT !.ev.stages = Append(@, s)]

\* formation before fusion
NetworkedFormationFirst(w0, grid0) ==
    Bind(Staged(Formation(w0, grid0), "formation"),
         LAMBDA w1 :
    Bind(Staged(Fusion(w1, grid0), "fusion"),
         LAMBDA w2 :
    Bind(CleanUp(w2),
         LAMBDA w3 :
    Bind(Staged(FlowPass(w3, 0), "flow"),
         LAMBDA w4 : Staged(Pruning(w4), "pruning")))))

\* the network passes: fusion, the rebuilt index, formation, the removal of
\* connections to dead agents, flow and signals, pruning
Networked(w0, grid0) ==
    Bind(Staged(Fusion(w0, grid0), "fusion"),
         LAMBDA w1 :
    Bind(BuildBuckets(config, w1.hyphae),
         LAMBDA grid1 :
    Bind(Staged(Formation([w1 EXCEPT !.grid = grid1], grid1), "formation"),
         LAMBDA w2 :
    Bind(CleanUp(w2),
         LAMBDA w3 :
    Bind(Staged(FlowPass(w3, 0), "flow"),
         LAMBDA w4 : Staged(Pruning(w4), "pruning"))))))

\* diffusion (when due), regeneration with the draws rd, and the spore pass
Nourished(w5, fps, frame, rd) ==
    Bind(IF do_diffuse(fps, frame) THEN Staged(Diffusion(w5), "diffusion") ELSE w5,
         LAMBDA w6 :
    Bind(Staged([w6 EXCEPT !.nutrients = Regeneration(@, rd, 1)], "regeneration"),
         LAMBDA w7 : Staged(SporePass(w7), "spores")))

\* the fruiting trigger with the draws fd, the fruit pass and the deaths
Fruited(w8, fd, fps) ==
    Bind(FruitingTrigger(w8, fd, fps),
         LAMBDA w9 :
    Bind(FruitPass(w9, 1),
         LAMBDA w10 : FruitDeaths(w10, w10.deaths, Len(w10.deaths))))

\* what a tick leaves in the state
Outcome(w) ==
    <<w.hyphae, w.spores, w.connections, w.connection_set, w.fruit_bodies, w.nutrients,
      w.cooldown, w.failed>>

\* the tick that ended in w, run again from the state w5 after pruning with
\* the same draws but the frame rate f2, ends in another state.  When the
\* trigger fires under one frame rate only, the cooldown timers differ.
EndsElsewhere(w, w5, frame, rd, fds, fd, sd, f2) ==
    Bind(Nourished(w5, f2, frame, rd),
         LAMBDA v8 :
           IF FruitingDraws(v8.hyphae, v8.cooldown, f2) # fds THEN TRUE
           ELSE Bind(Fruited(v8, fd, f2),
                     LAMBDA v11 :
                Bind(SporeSlots(v11.events),
                     LAMBDA vs :
                       IF Len(vs) # Len(sd) THEN TRUE
                       ELSE Outcome(SporeRelease(v11, vs, sd, 1)) # Outcome(w))))

\* Simulation::step under the frame rate fps.  The stages run in the order of
\* the code; each stage is bound to its value before the next stage reads it.
Tick(fps) ==
    /\ \E hs0 \in {EvictExcess(config, hyphae)} :
       \E grid0 \in {BuildBuckets(config, hs0)} :
       \E snap \in {BuildSnapshot(hs0)} :
       \E draws \in SeqsOver([k \in 1 .. Len(hs0) |-> AgentDraws(hs0[k], Len(hs0))]) :
       \E p \in {AgentPass(AgentPassStart(hs0), 0, snap, grid0, Len(hs0), draws)} :
       \E w0 \in {Staged(Staged([AfterAgentPass(p, grid0) EXCEPT
                                      !.ev.misread = PassMisreads(hs0, p, snap, grid0, draws)],
                                  "spatial_index"), "agents")} :
       \E w5 \in {Networked(w0, grid0)} :
       \E rd \in RegenDraws :
       \E w8 \in {Nourished(w5, fps, NextFrame(frame_index), rd)} :
       \E fds \in {FruitingDraws(w8.hyphae, w8.cooldown, fps)} :
       \E fd \in fds :
       \E w11 \in {Fruited(w8, fd, fps)} :
       \E slots \in {SporeSlots(w11.events)} :
       \E sd \in [1 .. Len(slots) -> SporeDraws] :
       \E w \in {Staged(SporeRelease(w11, slots, sd, 1), "fruiting")} :
       \E dep \in {\E f2 \in FpsReadings \ {fps} :
                       EndsElsewhere(w, w5, NextFrame(frame_index), rd, fds, fd, sd, f2)} :
          /\ hyphae' = w.hyphae
          /\ spores' = w.spores
          /\ connections' = w.connections
          /\ connection_set' = w.connection_set
          /\ fruit_bodies' = w.fruit_bodies
          /\ nutrients' = w.nutrients
          /\ spatial_grid' = w.grid
          /\ fruit_cooldown_timer' = w.cooldown
          /\ fruiting_failed_attempts' = w.failed
          /\ oob' = w.oob
          /\ tick_events' = [w.ev EXCEPT !.fps_dependent = dep]
    /\ frame_index' = NextFrame(frame_index)
    /\ last_call' = "step"
    /\ UNCHANGED <<config, obstacles, external_calls, weather>>

\* a caller runs one tick
Step ==
    /\ Constructed
    /\ frame_index < MaxTicks
    /\ \E fps \in FpsReadings : Tick(fps)
    /\ UNCHANGED headless_mode
    /\ UNCHANGED server

(***************************************************************************)
(* Calls made between ticks by the controls and the API.                   *)
(***************************************************************************)
\* positions and cells the callers pass (already clamped to 0 ..= grid_size - 1)
SpawnPositions == {<<6, 6>>}
InjectionCells == {<<3, 3>>}

Called(name) == external_calls' = external_calls + 1 /\ last_call' = name

\* the cells add_nutrient_patch / add_nitrogen_patch write for the centre (gx, gy)
PatchCells(gx, gy) ==
    LET G == config.grid_size
    IN {<<Clamp(gx + d[1], 0, G - 1), Clamp(gy + d[2], 0, G - 1)>> :
           d \in {e \in (-3 .. 3) \X (-3 .. 3) : e[1] * e[1] + e[2] * e[2] < 9}}

\* add_sugar(nx, ny, 1.0) / add_nitrogen(nx, ny, 1.0) on every cell of the patch
Patched(field, gx, gy) ==
    [c \in DOMAIN field |-> IF c \in PatchCells(gx, gy) THEN Min(field[c] + EScale, EScale)
                            ELSE field[c]]

\* an agent in the corner of the playable area
ResetAgentOffCentre(G) == NewHypha(PosScale, PosScale)

\* the agent reset pushes: cx = cy = grid_size as f32 / 2.0
ResetAgent(G) == NewHypha((G * PosScale) \div 2, (G * PosScale) \div 2)

\* Simulation::reset
reset ==
    /\ hyphae' = <<ResetAgent(config.grid_size)>>
    /\ spores' = <<>>
    /\ connections' = <<>>
    /\ connection_set' = {}
    /\ fruit_bodies' = <<>>
    /\ fruit_cooldown_timer' = 0
    /\ fruiting_failed_attempts' = 0
    /\ nutrients' \in NutrientFields(config.grid_size)
    /\ UNCHANGED <<config, obstacles, spatial_grid, frame_index, oob, tick_events,
                   headless_mode, paused, speed_accumulator, weather>>

\* a caller resets the instance
Reset ==
    /\ Constructed
    /\ external_calls < MaxExternalCalls
    /\ reset
    /\ Called("reset")
    /\ UNCHANGED <<simulation_lock, rng_lock, loop_pc, loop_steps, requests>>

SpawnHyphaAt ==
    /\ Constructed
    /\ external_calls < MaxExternalCalls
    /\ \E pos \in SpawnPositions : hyphae' = Append(hyphae, NewHypha(pos[1], pos[2]))
    /\ Called("spawn_hypha_at")
    /\ UNCHANGED <<config, spores, connections, connection_set, fruit_bodies, nutrients,
                   obstacles, spatial_grid, fruit_cooldown_timer, fruiting_failed_attempts,
                   frame_index, oob, tick_events, headless_mode, weather>>
    /\ UNCHANGED server

unchanged_by_injection ==
    <<config, hyphae, spores, connections, connection_set, fruit_bodies, obstacles,
      spatial_grid, fruit_cooldown_timer, fruiting_failed_attempts, frame_index, oob,
      tick_events, headless_mode, paused, speed_accumulator, simulation_lock, rng_lock,
      loop_pc, loop_steps, requests, weather>>

AddNutrientCell ==
    /\ Constructed
    /\ external_calls < MaxExternalCalls
    /\ \E c \in InjectionCells :
          nutrients' = [nutrients EXCEPT !.sugar = add_amount(@, c, EScale)]
    /\ Called("add_nutrient_cell")
    /\ UNCHANGED unchanged_by_injection

AddNitrogenCell ==
    /\ Constructed
    /\ external_calls < MaxExternalCalls
    /\ \E c \in InjectionCells :
          nutrients' = [nutrients EXCEPT !.nitrogen = add_amount(@, c, EScale)]
    /\ Called("add_nitrogen_cell")
    /\ UNCHANGED unchanged_by_injection

AddNutrientPatch ==
    /\ Constructed
    /\ external_calls < MaxExternalCalls
    /\ \E c \in InjectionCells :
          nutrients' = [nutrients EXCEPT !.sugar = Patched(@, c[1], c[2])]
    /\ Called("add_nutrient_patch")
    /\ UNCHANGED unchanged_by_injection

AddNitrogenPatch ==
    /\ Constructed
    /\ external_calls < MaxExternalCalls
    /\ \E c \in InjectionCells :
          nutrients' = [nutrients EXCEPT !.nitrogen = Patched(@, c[1], c[2])]
    /\ Called("add_nitrogen_patch")
    /\ UNCHANGED unchanged_by_injection

(***************************************************************************)
(* Simulation::stats.                                                      *)
(***************************************************************************)
\* the tally if the loop counted every agent, dead ones included
CountedAlways(h) == TRUE

\* `if h.alive { hyphae_count += 1; total_energy += h.energy; }`
Counted(h) == h.alive

RECURSIVE LiveTally(_, _)
\* hyphae_count and total_energy after the loop has seen the first k agents
LiveTally(hs, k) ==
    IF k = 0 THEN [count |-> 0, energy |-> 0]
    ELSE Bind(LiveTally(hs, k - 1),
              LAMBDA t : IF Counted(hs[k])
                         THEN [count |-> t.count + 1, energy |-> t.energy + hs[k].energy]
                         ELSE t)

\* the tuple stats() returns, as a record
stats ==
    Bind(LiveTally(hyphae, Len(hyphae)),
         LAMBDA t :
           [hyphae_count |-> t.count,
            spores_count |-> Len(SelectSeq(spores, LAMBDA sp : sp.alive)),
            connections_count |-> Len(connections),
            fruit_count |-> Len(fruit_bodies),
            avg_energy |-> IF t.count > 0 THEN t.energy \div t.count ELSE 0,
            total_energy |-> t.energy])

Next ==
    \/ Step
    \/ Reset
    \/ SpawnHyphaAt
    \/ AddNutrientCell
    \/ AddNitrogenCell
    \/ AddNutrientPatch
    \/ AddNitrogenPatch

Spec == Init /\ [][Next]_vars

(***************************************************************************)
(* The HTTP transport (api.rs).  simulation_loop and the request handlers  *)
(* share one Simulation behind ApiState.simulation and one generator       *)
(* behind ApiState.rng, both std::sync::Mutex.  A task between two         *)
(* statements is a value of loop_pc or of a request's pc; the other tasks  *)
(* run in between.  A handler appears in requests when it has asked for    *)
(* the simulation lock and got an answer.                                  *)
(***************************************************************************)
\* the number of requests the server takes up in a run
MaxRequests == 3

\* the values of ?steps=N the clients send; None when the parameter is absent
StepParams == {None, 2}

\* Simulation::speed_multiplier, in tenths: 1.0, never changed by the transport
speed_multiplier == 10

\* the values of a mutex: free, poisoned by a panic, or held by a task
Free == <<>>
Poisoned == <<"poisoned">>
LoopTask == <<"loop">>
Handler(r) == <<"request", r>>

\* a lock() that returns whoever holds the mutex
AcquirableAlways(lock) == TRUE

\* Mutex::lock returns once no task holds the mutex; Err when it is poisoned
Acquirable(lock) == lock \in {Free, Poisoned}

\* a guard that lives on through the sleep of the loop
KeptAcrossSleep(lock) == lock

\* the block around the loop's guards ends before the sleep: the guard is
\* dropped and the mutex is free
Dropped(lock) == Free

\* params.steps.unwrap_or(0)
steps_or_none(steps) == IF steps = None THEN 0 ELSE steps

\* params.steps.unwrap_or(1)
steps_or_default(steps) == IF steps = None THEN 1 ELSE steps

\* the loop steps whatever the flag says
AlwaysRunning(p) == TRUE

\* if !sim.paused
Running(p) == ~p

NewRequest(kind, steps, pc) ==
    [kind |-> kind, steps |-> steps, pc |-> pc, left |-> 0, frame_at_lock |-> frame_index,
     response |-> None]

sim_vars ==
    <<config, hyphae, spores, connections, connection_set, fruit_bodies, nutrients,
      obstacles, spatial_grid, fruit_cooldown_timer, fruiting_failed_attempts, frame_index,
      oob, tick_events, external_calls, last_call, headless_mode, weather>>

\* simulation_loop: api_state.simulation.lock(), Err(_) => break
LoopLock ==
    /\ loop_pc = "idle"
    /\ Acquirable(simulation_lock)
    /\ IF simulation_lock = Poisoned
       THEN loop_pc' = "ended" /\ UNCHANGED simulation_lock
       ELSE loop_pc' = "locked" /\ simulation_lock' = LoopTask
    /\ UNCHANGED <<sim_vars, paused, speed_accumulator, rng_lock, loop_steps, requests>>

\* simulation_loop: the flag is set; the guard is dropped and the task sleeps
LoopPaused ==
    /\ loop_pc = "locked"
    /\ ~Running(paused)
    /\ loop_pc' = "idle"
    /\ simulation_lock' = Dropped(simulation_lock)
    /\ UNCHANGED <<sim_vars, paused, speed_accumulator, rng_lock, loop_steps, requests>>

\* simulation_loop: api_state.rng.lock() and the speed accumulator
LoopLockRng ==
    /\ loop_pc = "locked"
    /\ Running(paused)
    /\ Acquirable(rng_lock)
    /\ IF rng_lock = Poisoned
       THEN /\ loop_pc' = "ended"
            /\ simulation_lock' = Free
            /\ UNCHANGED <<rng_lock, loop_steps, speed_accumulator>>
       ELSE /\ loop_pc' = "stepping"
            /\ rng_lock' = LoopTask
            /\ loop_steps' = (speed_accumulator + speed_multiplier) \div 10
            /\ speed_accumulator' = (speed_accumulator + speed_multiplier) % 10
            /\ UNCHANGED simulation_lock
    /\ UNCHANGED <<sim_vars, paused, requests>>

\* simulation_loop: sim.step(&mut *rng); a panic in step poisons both mutexes
LoopTick ==
    /\ loop_pc = "stepping"
    /\ loop_steps > 0
    /\ frame_index < MaxTicks
    /\ \E fps \in FpsReadings : Tick(fps)
    /\ IF oob'
       THEN /\ simulation_lock' = Poisoned /\ rng_lock' = Poisoned
            /\ loop_pc' = "ended" /\ loop_steps' = 0
       ELSE /\ loop_steps' = loop_steps - 1
            /\ UNCHANGED <<simulation_lock, rng_lock, loop_pc>>
    /\ UNCHANGED <<headless_mode, paused, speed_accumulator, requests>>

\* simulation_loop: the block ends, both guards are dropped, the task sleeps
LoopRelease ==
    /\ loop_pc = "stepping"
    /\ loop_steps = 0
    /\ loop_pc' = "idle"
    /\ simulation_lock' = Dropped(simulation_lock)
    /\ rng_lock' = Dropped(rng_lock)
    /\ UNCHANGED <<sim_vars, paused, speed_accumulator, loop_steps, requests>>

\* step_simulation, reset_simulation, pause_simulation:
\* api_state.simulation.lock().map_err(|_| StatusCode::INTERNAL_SERVER_ERROR)?
HandlerLock ==
    /\ Len(requests) < MaxRequests
    /\ Acquirable(simulation_lock)
    /\ \E kind \in {"step", "reset", "pause"} :
       \E steps \in (IF kind = "step" THEN StepParams ELSE {None}) :
          IF simulation_lock = Poisoned
          THEN /\ requests' = Append(requests, NewRequest(kind, steps, "failed"))
               /\ UNCHANGED simulation_lock
          ELSE /\ requests' = Append(requests, NewRequest(kind, steps, "has_simulation"))
               /\ simulation_lock' = Handler(Len(requests) + 1)
    /\ UNCHANGED <<sim_vars, paused, speed_accumulator, rng_lock, loop_pc, loop_steps>>

\* step_simulation, reset_simulation: api_state.rng.lock().map_err(…)?
HandlerLockRng ==
    \E r \in 1 .. Len(requests) :
        /\ requests[r].kind \in {"step", "reset"}
        /\ requests[r].pc = "has_simulation"
        /\ Acquirable(rng_lock)
        /\ IF rng_lock = Poisoned
           THEN /\ requests' = [requests EXCEPT ![r].pc = "failed"]
                /\ simulation_lock' = Free
                /\ UNCHANGED rng_lock
           ELSE /\ requests' = [requests EXCEPT ![r].pc = "has_rng",
                                                ![r].left = steps_or_default(requests[r].steps)]
                /\ rng_lock' = Handler(r)
                /\ UNCHANGED simulation_lock
        /\ UNCHANGED <<sim_vars, paused, speed_accumulator, loop_pc, loop_steps>>

\* step_simulation: for _ in 0..steps { sim.step(&mut *rng); }
StepSimulationTick ==
    \E r \in 1 .. Len(requests) :
        /\ requests[r].kind = "step"
        /\ requests[r].pc = "has_rng"
        /\ requests[r].left > 0
        /\ frame_index < MaxTicks
        /\ \E fps \in FpsReadings : Tick(fps)
        /\ IF oob'
           THEN /\ simulation_lock' = Poisoned /\ rng_lock' = Poisoned
                /\ requests' = [requests EXCEPT ![r].pc = "panicked"]
           ELSE /\ requests' = [requests EXCEPT ![r].left = @ - 1]
                /\ UNCHANGED <<simulation_lock, rng_lock>>
        /\ UNCHANGED <<headless_mode, paused, speed_accumulator, loop_pc, loop_steps>>

\* step_simulation: Ok(Json(simulation_to_response(&sim))), the guards are dropped
StepSimulationRespond ==
    \E r \in 1 .. Len(requests) :
        /\ requests[r].kind = "step"
        /\ requests[r].pc = "has_rng"
        /\ requests[r].left = 0
        /\ requests' = [requests EXCEPT ![r].pc = "done", ![r].response = frame_index]
        /\ simulation_lock' = Free
        /\ rng_lock' = Free
        /\ UNCHANGED <<sim_vars, paused, speed_accumulator, loop_pc, loop_steps>>

\* reset_simulation: sim.reset(&mut *rng) and the response
ResetSimulation ==
    \E r \in 1 .. Len(requests) :
        /\ requests[r].kind = "reset"
        /\ requests[r].pc = "has_rng"
        /\ reset
        /\ last_call' = "reset"
        /\ requests' = [requests EXCEPT ![r].pc = "done", ![r].response = frame_index]
        /\ simulation_lock' = Free
        /\ rng_lock' = Free
        /\ UNCHANGED <<external_calls, loop_pc, loop_steps>>

\* pause_simulation: sim.toggle_pause() and the response
PauseSimulation ==
    \E r \in 1 .. Len(requests) :
        /\ requests[r].kind = "pause"
        /\ requests[r].pc = "has_simulation"
        /\ paused' = ~paused
        /\ requests' = [requests EXCEPT ![r].pc = "done", ![r].response = frame_index]
        /\ simulation_lock' = Free
        /\ UNCHANGED <<sim_vars, speed_accumulator, rng_lock, loop_pc, loop_steps>>

\* get_state, get_stats, get_config: lock, read, respond
GetStats ==
    /\ Len(requests) < MaxRequests
    /\ Acquirable(simulation_lock)
    /\ requests' = Append(requests,
                          [NewRequest("stats", None,
                                      IF simulation_lock = Poisoned THEN "failed" ELSE "done")
                             EXCEPT !.response = IF simulation_lock = Poisoned THEN None
                                                 ELSE frame_index])
    /\ UNCHANGED <<sim_vars, paused, speed_accumulator, simulation_lock, rng_lock, loop_pc,
                   loop_steps>>

LoopNext == LoopLock \/ LoopPaused \/ LoopLockRng \/ LoopTick \/ LoopRelease

HandlerNext ==
    \/ HandlerLockRng
    \/ StepSimulationTick
    \/ StepSimulationRespond
    \/ ResetSimulation
    \/ PauseSimulation

ApiNext == LoopNext \/ HandlerNext \/ HandlerLock \/ GetStats

\* run_server over one instance of GrowthConfig
ApiInit == Init /\ config = GrowthConfig

\* the runtime runs every task that can run: the loop wakes from its sleep,
\* a handler that has begun goes on, a lock that stays free is granted
ApiSpec == ApiInit /\ [][ApiNext]_vars /\ WF_vars(LoopNext) /\ WF_vars(HandlerNext)

(***************************************************************************)
(* The weather through the ticks.  Weather::update is called by step and   *)
(* by nothing else, once per tick, before any other stage, with            *)
(* dt = 1.0 / get_fps().max(1.0); no other stage writes the weather.  The  *)
(* runs start from weather states the update reaches: each season, dry and *)
(* in rain, the humidity near the summer target and near its cap.          *)
(***************************************************************************)
\* the number of ticks of a weather run
MaxWeatherTicks == 2

WeatherConfig == [GrowthConfig EXCEPT !.weather_enabled = TRUE]

\* frame rates get_fps() reports in a ui build: 1 or less, 3, 60
WeatherFps == {1, 3, 60}

WeatherInputs ==
    {Weather_new}
      \cup {[Weather_new EXCEPT !.time = t, !.season = get_season(Weather_new, t),
                                !.temperature = tp, !.humidity = h, !.rain = r] :
              t \in {59, 130, 185}, tp \in {9200}, h \in {4600, 9400}, r \in {0, 900, 9800}}

WeatherInit == InitFrom({[config |-> WeatherConfig, headless |-> FALSE,
                          positions |-> InitPositions]})
               /\ weather \in WeatherInputs

\* step: frame_index += 1; if self.config.weather_enabled { weather.update(dt, rng) }
WeatherStage ==
    /\ Constructed
    /\ config.weather_enabled
    /\ frame_index < MaxWeatherTicks
    /\ frame_index' = NextFrame(frame_index)
    /\ \E fps \in WeatherFps :
       \E d \in WeatherDraws : weather' = Weather_update(weather, CooldownDrop(fps), d)
    /\ UNCHANGED <<config, hyphae, spores, connections, connection_set, fruit_bodies,
                   nutrients, obstacles, spatial_grid, fruit_cooldown_timer,
                   fruiting_failed_attempts, oob, tick_events, external_calls, last_call,
                   headless_mode>>
    /\ UNCHANGED server

WeatherSpec == WeatherInit /\ [][WeatherStage]_vars

(***************************************************************************)
(* An old colony.  The strength of an agent starts at 1.0, a branch starts *)
(* at 0.8 of its parent's (step, 1293), and the pruning stage takes a      *)
(* tenth off the strength of an agent that is under pruning_threshold / 2  *)
(* and under twice min_energy_to_live (1685-1697).  With the thresholds of *)
(* SimulationConfig::default (pruning_threshold 0.05, min_energy_to_live   *)
(* 0.005, min_connection_strength 0.1, flow_decay_rate 0.998) a branch of  *)
(* the 17th generation starts under 0.025 (0.8^17 = 0.0225) and its parent *)
(* above (0.8^16 = 0.0281), so no run of MaxTicks ticks from construction  *)
(* gets there.  The runs below start in such a colony instead: a parent    *)
(* and its branch at rest on cells without nutrients, both low on energy,  *)
(* the branch pruned down for some ticks already, and between them a       *)
(* connection that decayed to min_connection_strength.  frame_index counts *)
(* the ticks from that state on.                                           *)
(***************************************************************************)
WitheringConfig ==
    [StarvingConfig EXCEPT
      !.energy_decay_rate = 9985,
      !.min_energy_to_live = 50,
      !.min_connection_strength = 1000,
      !.flow_decay_rate = 9980,
      !.initial_hyphae_count = 2,
      !.max_hyphae = 0]

\* the strength of the branch: 0.8^17 after seven, six and no tick of pruning
WitheredStrengths == {108, 120, 225}
\* the energy of both agents, between min_energy_to_live and twice that
WitheredEnergies == {60, 80, 95}

WitheringInit ==
    /\ config = WitheringConfig
    /\ headless_mode = TRUE
    /\ \E s \in WitheredStrengths, e \in WitheredEnergies, a \in {8, 9} :
          hyphae = <<[NewHypha(9, 4) EXCEPT !.strength = 281, !.energy = e, !.age = a + 30],
                     [NewHypha(8, 5) EXCEPT !.strength = s, !.energy = e, !.age = a,
                                            !.parent = 0]>>
    /\ nutrients \in NutrientFields(config.grid_size)
    /\ obstacles \in ObstacleLayouts(config)
    /\ spatial_grid = BuildBuckets(config, hyphae)
    /\ last_call = "step"
    /\ spores = <<>>
    /\ connections = <<[strength |-> config.min_connection_strength, hypha1 |-> 0,
                        hypha2 |-> 1, flow_accumulator |-> 0]>>
    /\ connection_set = {<<0, 1>>}
    /\ fruit_bodies = <<>>
    /\ fruit_cooldown_timer = 0
    /\ fruiting_failed_attempts = 0
    /\ frame_index = 0
    /\ oob = FALSE
    /\ tick_events = NoEvents
    /\ external_calls = 0
    /\ paused = FALSE
    /\ speed_accumulator = 0
    /\ simulation_lock = <<>>
    /\ rng_lock = <<>>
    /\ loop_pc = "idle"
    /\ loop_steps = 0
    /\ requests = <<>>
    /\ weather = Weather_new

WitheringSpec == WitheringInit /\ [][Next]_vars

(***************************************************************************)
(* A colony of the third generation.  Two founders both branched in one    *)
(* tick, so that the two branches, agents 2 and 3, both carry the parent   *)
(* index hyphae_len = 2 (line 1249); the first founder has died since and  *)
(* stays in the vector, max_hyphae being 0.  The branches have fed         *)
(* differently.                                                            *)
(***************************************************************************)
LineageEnergies == {2000, 9000}

LineageInit ==
    /\ config = WitheringConfig
    /\ headless_mode = TRUE
    /\ \E e2 \in LineageEnergies, e3 \in LineageEnergies, a \in {3, 4} :
          hyphae = <<[NewHypha(9, 4) EXCEPT !.alive = FALSE, !.energy = 40, !.age = a + 2],
                     [NewHypha(8, 5) EXCEPT !.age = a + 3],
                     [NewHypha(9, 7) EXCEPT !.energy = e2, !.age = a, !.parent = 2,
                                            !.strength = 8000],
                     [NewHypha(8, 8) EXCEPT !.energy = e3, !.age = a, !.parent = 2,
                                            !.strength = 8000]>>
    /\ nutrients \in NutrientFields(config.grid_size)
    /\ obstacles \in ObstacleLayouts(config)
    /\ spatial_grid = BuildBuckets(config, hyphae)
    /\ last_call = "step"
    /\ spores = <<>>
    /\ connections = <<>>
    /\ connection_set = {}
    /\ fruit_bodies = <<>>
    /\ fruit_cooldown_timer = 0
    /\ fruiting_failed_attempts = 0
    /\ frame_index = 0
    /\ oob = FALSE
    /\ tick_events = NoEvents
    /\ external_calls = 0
    /\ paused = FALSE
    /\ speed_accumulator = 0
    /\ simulation_lock = <<>>
    /\ rng_lock = <<>>
    /\ loop_pc = "idle"
    /\ loop_steps = 0
    /\ requests = <<>>
    /\ weather = Weather_new

LineageSpec == LineageInit /\ [][Next]_vars

(***************************************************************************)
(* Fruit bodies from their creation to their death, with a scheduled       *)
(* release at half of the lifespan and with fruiting_spore_release_fraction *)
(* = 1, where the first scheduled age is the lifespan itself and the loop   *)
(* at 2090-2094 never releases.                                            *)
(***************************************************************************)
LateReleaseConfig == [FruitingConfig EXCEPT !.fruiting_spore_release_fraction = EScale]

RipeningLaunches ==
    {[config |-> c, headless |-> TRUE, positions |-> InitPositions] :
        c \in {FruitingConfig, LateReleaseConfig}}

RipeningInit == InitFrom(RipeningLaunches) /\ weather = Weather_new

RipeningSpec == RipeningInit /\ [][Next]_vars

(***************************************************************************)
(* An agent drawn next to the right border, at (4.5, 3.0), with obstacles  *)
(* on the cells along the border.                                          *)
(***************************************************************************)
ReflectingConfig == [GrowthConfig EXCEPT !.branch_prob = 0, !.obstacle_count = 2]

BorderPositions == {<<9, 6>>, <<8, 4>>}

ReflectingLaunches ==
    {[config |-> ReflectingConfig, headless |-> TRUE, positions |-> BorderPositions]}

ReflectingInit == InitFrom(ReflectingLaunches) /\ weather = Weather_new

ReflectingSpec == ReflectingInit /\ [][Next]_vars

(***************************************************************************)
(* The connections of a colony at rest through the ticks.  For agents that *)
(* neither move nor branch, on cells without nutrients and with            *)
(* energy_decay_rate = 1, the agent pass leaves positions, energies and    *)
(* strengths as they are, fusion and formation find nothing new, and the   *)
(* stages that write the connections are the clean-up, the flow pass and   *)
(* the pruning (1554-1697).  RestingTick applies these three; ages and     *)
(* frame_index, which grow with every tick and are read by none of them,   *)
(* are left as they are, so that the runs are not cut off after MaxTicks   *)
(* ticks.  run_server and the ui loop call step again and again: the tick  *)
(* is weakly fair.                                                         *)
(***************************************************************************)
\* the thresholds of SimulationConfig::default, and a floor under the
\* pruning threshold
RestingConfigs ==
    {[WitheringConfig EXCEPT !.energy_decay_rate = EScale],
     [WitheringConfig EXCEPT !.energy_decay_rate = EScale, !.min_connection_strength = 100]}

\* the energy of the second agent: that of the first, or far above it
RestingEnergies == {5000, 9000}

RestingInit ==
    /\ config \in RestingConfigs
    /\ headless_mode = TRUE
    /\ \E e \in RestingEnergies :
          hyphae = <<[NewHypha(9, 4) EXCEPT !.age = 1],
                     [NewHypha(8, 5) EXCEPT !.age = 1, !.energy = e]>>
    /\ nutrients \in NutrientFields(config.grid_size)
    /\ obstacles \in ObstacleLayouts(config)
    /\ spatial_grid = BuildBuckets(config, hyphae)
    /\ last_call = "step"
    /\ spores = <<>>
    /\ connections = <<[strength |-> EScale, hypha1 |-> 0, hypha2 |-> 1,
                        flow_accumulator |-> 0]>>
    /\ connection_set = {<<0, 1>>}
    /\ fruit_bodies = <<>>
    /\ fruit_cooldown_timer = 0
    /\ fruiting_failed_attempts = 0
    /\ frame_index = 1
    /\ oob = FALSE
    /\ tick_events = NoEvents
    /\ external_calls = 0
    /\ paused = FALSE
    /\ speed_accumulator = 0
    /\ simulation_lock = <<>>
    /\ rng_lock = <<>>
    /\ loop_pc = "idle"
    /\ loop_steps = 0
    /\ requests = <<>>
    /\ weather = Weather_new

\* step for a colony at rest: clean-up, flow pass, pruning
RestingTick ==
    /\ Constructed
    /\ \E w0 \in {[hyphae |-> hyphae, connections |-> connections,
                   connection_set |-> connection_set, oob |-> oob, ev |-> NoEvents]} :
       \E w \in {Pruning(FlowPass(CleanUp(w0), 0))} :
          /\ hyphae' = w.hyphae
          /\ connections' = w.connections
          /\ connection_set' = w.connection_set
          /\ oob' = w.oob
          /\ tick_events' = w.ev
    /\ UNCHANGED <<config, spores, fruit_bodies, nutrients, obstacles, spatial_grid,
                   fruit_cooldown_timer, fruiting_failed_attempts, frame_index,
                   external_calls, last_call, headless_mode, weather>>
    /\ UNCHANGED server

RestingSpec == RestingInit /\ [][RestingTick]_vars /\ WF_vars(RestingTick)

(***************************************************************************)
(* The flow pass over one connection, for the flow rates, strengths and    *)
(* energies below: the resting colony of RestingTick, with the products    *)
(* connection_flow_rate * strength 0.005 ... 2.                            *)
(***************************************************************************)
FlowRates == {200, 5000, 10000, 20000}

FlowStrengths == {2500, 5000, 10000}

FlowEnergies == {0, 100, 150, 5000, 5100, 10000}

FlowConfigs ==
    {[WitheringConfig EXCEPT !.energy_decay_rate = EScale, !.flow_decay_rate = 5000,
                             !.flow_strengthening_rate = 20,
                             !.connection_flow_rate = r] : r \in FlowRates}

FlowInit ==
    /\ config \in FlowConfigs
    /\ headless_mode = TRUE
    /\ \E e1 \in FlowEnergies, e2 \in FlowEnergies :
          hyphae = <<[NewHypha(9, 4) EXCEPT !.age = 1, !.energy = e1],
                     [NewHypha(8, 5) EXCEPT !.age = 1, !.energy = e2]>>
    /\ nutrients \in NutrientFields(config.grid_size)
    /\ obstacles \in ObstacleLayouts(config)
    /\ spatial_grid = BuildBuckets(config, hyphae)
    /\ last_call = "step"
    /\ spores = <<>>
    /\ \E s \in FlowStrengths :
          connections = <<[strength |-> s, hypha1 |-> 0, hypha2 |-> 1,
                           flow_accumulator |-> 0]>>
    /\ connection_set = {<<0, 1>>}
    /\ fruit_bodies = <<>>
    /\ fruit_cooldown_timer = 0
    /\ fruiting_failed_attempts = 0
    /\ frame_index = 1
    /\ oob = FALSE
    /\ tick_events = NoEvents
    /\ external_calls = 0
    /\ paused = FALSE
    /\ speed_accumulator = 0
    /\ simulation_lock = <<>>
    /\ rng_lock = <<>>
    /\ loop_pc = "idle"
    /\ loop_steps = 0
    /\ requests = <<>>
    /\ weather = Weather_new

FlowSpec == FlowInit /\ [][RestingTick]_vars

(***************************************************************************)
(* The fruiting trigger of a colony at rest through the ticks: two live    *)
(* agents at (1.0, 1.0) whose number and energy satisfy the trigger and    *)
(* the fallback conditions on every tick, on poor nutrient fields that     *)
(* neither diffuse nor regenerate.  FruitingStage applies lines 1880-2011  *)
(* of step; the life of the fruit bodies (2013-2180) is left out and the   *)
(* stage stops at MaxFruitBodies bodies.  The loops call step again and    *)
(* again: the stage is weakly fair.                                        *)
(***************************************************************************)
MaxFruitBodies == 2

FallbackConfigs ==
    {[WitheringConfig EXCEPT !.energy_decay_rate = EScale, !.diffusion_rate = 0,
                             !.obstacle_count = 1,
                             !.fruiting_min_hyphae = 1,
                             !.fruiting_threshold_total_energy = 5000,
                             !.fruiting_lifespan_max = 5,
                             !.fruiting_failed_attempts_before_fallback = n] : n \in {1, 3}}

\* no nutrients at all; a little sugar in one cell; a little more in another
PoorFields(G) ==
    {[sugar |-> [c \in Cells(G) |-> IF c = rich THEN amount ELSE 0],
      nitrogen |-> [c \in Cells(G) |-> 0]] :
        rich \in {<<3, 3>>, <<2, 4>>}, amount \in {0, 1000, 3000}}

\* the obstacle_count = 1 cells the construction may have drawn
FallbackObstacles == {{<<3, 3>>}, {<<4, 1>>}}

\* rng.gen_range(-1.5..1.5), in position units
FallbackJitter == {-2, 0, 2}

FallbackInit ==
    /\ config \in FallbackConfigs
    /\ headless_mode = TRUE
    /\ hyphae = <<[NewHypha(2, 2) EXCEPT !.age = 1], [NewHypha(2, 2) EXCEPT !.age = 1]>>
    /\ nutrients \in PoorFields(config.grid_size)
    /\ obstacles \in FallbackObstacles
    /\ spatial_grid = BuildBuckets(config, hyphae)
    /\ last_call = "step"
    /\ spores = <<>>
    /\ connections = <<>>
    /\ connection_set = {}
    /\ fruit_bodies = <<>>
    /\ fruit_cooldown_timer = 0
    /\ fruiting_failed_attempts = 0
    /\ frame_index = 1
    /\ oob = FALSE
    /\ tick_events = NoEvents
    /\ external_calls = 0
    /\ paused = FALSE
    /\ speed_accumulator = 0
    /\ simulation_lock = <<>>
    /\ rng_lock = <<>>
    /\ loop_pc = "idle"
    /\ loop_steps = 0
    /\ requests = <<>>
    /\ weather = Weather_new

\* the fruiting stage of step for a colony at rest
FruitingStage ==
    /\ Constructed
    /\ Len(fruit_bodies) < MaxFruitBodies
    /\ \E d \in [jx : FallbackJitter, jy : FallbackJitter, relaxed : BOOLEAN,
                 bjx : BodyJitter, bjy : BodyJitter, lifespan : LifespanDraws] :
       \E w \in {FruitingTrigger([hyphae |-> hyphae, nutrients |-> nutrients,
                                  fruit_bodies |-> fruit_bodies,
                                  cooldown |-> fruit_cooldown_timer,
                                  failed |-> fruiting_failed_attempts,
                                  spawned |-> FALSE, oob |-> oob, ev |-> NoEvents],
                                 d, 60)} :
          /\ fruit_bodies' = w.fruit_bodies
          /\ nutrients' = w.nutrients
          /\ fruit_cooldown_timer' = w.cooldown
          /\ fruiting_failed_attempts' = w.failed
          /\ oob' = w.oob
          /\ tick_events' = w.ev
    /\ UNCHANGED <<config, hyphae, spores, connections, connection_set, obstacles,
                   spatial_grid, frame_index, external_calls, last_call, headless_mode,
                   weather>>
    /\ UNCHANGED server

FallbackSpec == FallbackInit /\ [][FruitingStage]_vars /\ WF_vars(FruitingStage)

(***************************************************************************)
(* Properties of the simulation.                                           *)
(***************************************************************************)
\* the call that returned last is a tick
StepReturned == last_call = "step"

\* the tick that returned removed an agent or a connection
AgentsRemoved == tick_events.evicted > 0 \/ tick_events.fused > 0

\* C1: whenever a step has returned, the two endpoint indices of every
\* connection are distinct and both below the length of the agent collection.
ConnectionEndpointsValid ==
    StepReturned =>
        \A k \in 1 .. Len(connections) :
            /\ connections[k].hypha1 # connections[k].hypha2
            /\ InRange(hyphae, connections[k].hypha1)
            /\ InRange(hyphae, connections[k].hypha2)

\* a tick that removed agents, and cleaned a connection, returned with connections left
ConnectionsSurviveRemoval ==
    StepReturned /\ AgentsRemoved /\ tick_events.cleaned > 0 /\ connections # <<>>

\* C2: whenever a step has returned, the parent index of every agent is absent
\* or below the length of the agent collection.
ParentIndexValid ==
    StepReturned =>
        \A k \in 1 .. Len(hyphae) : hyphae[k].parent = None \/ hyphae[k].parent < Len(hyphae)

\* the keys of the connections in the list, one per connection
ListedKeys == [k \in 1 .. Len(connections) |-> ConnectionKey(connections[k])]

\* C3: the connection list and the index-pair set have the same size, and a
\* pair is in the set if and only if exactly one connection has these endpoints.
ConnectionSetMatchesList ==
    /\ Len(connections) = Cardinality(connection_set)
    /\ \A k \in 1 .. Len(connections) : ListedKeys[k] \in connection_set
    /\ \A key \in connection_set :
          Cardinality({k \in 1 .. Len(connections) : ListedKeys[k] = key}) = 1

\* a tick in which fusion removed an agent returned with a connection and its key
KeysFollowFusion == StepReturned /\ tick_events.fused > 0 /\ connection_set # {}

\* C4: no two connections have the same unordered endpoint pair, and every
\* connection is stored with hypha1 < hypha2.
ConnectionsCanonical ==
    /\ \A k \in 1 .. Len(connections) : connections[k].hypha1 < connections[k].hypha2
    /\ \A k, m \in 1 .. Len(connections) : ListedKeys[k] = ListedKeys[m] => k = m

\* a tick formed a connection next to one that was there before
SecondConnectionFormed == StepReturned /\ tick_events.formed > 0 /\ Len(connections) >= 2

\* C5: if max_hyphae > 0, then whenever a step has returned the agent
\* collection holds at most max_hyphae agents.
PopulationCapped ==
    (StepReturned /\ config.max_hyphae > 0) => Len(hyphae) <= config.max_hyphae

\* C6: whenever a step has returned, every live agent has 0 <= x < grid_size
\* and 0 <= y < grid_size.
AgentsInsideGrid ==
    StepReturned =>
        \A k \in 1 .. Len(hyphae) :
            hyphae[k].alive => in_bounds(hyphae[k].x, hyphae[k].y, config.grid_size)

StrengthsInUnitRange ==
    \A k \in 1 .. Len(connections) :
        connections[k].strength >= 0 /\ connections[k].strength <= EScale

\* C8 as stated: every connection's strength is within [0, 1], for any
\* configuration whose min_connection_strength lies in [0, 1].
StrengthInUnitRange ==
    (config.min_connection_strength >= 0 /\ config.min_connection_strength <= EScale)
        => StrengthsInUnitRange

\* C8 with the rates bounded as well: every connection's strength is within
\* [0, 1], for any configuration whose min_connection_strength lies in [0, 1],
\* whose flow_decay_rate is at most 1 and whose flow_strengthening_rate is not
\* negative.
StrengthInUnitRangeForBoundedRates ==
    (/\ config.min_connection_strength >= 0 /\ config.min_connection_strength <= EScale
     /\ config.flow_decay_rate <= EScale
     /\ config.flow_strengthening_rate >= 0)
        => StrengthsInUnitRange

\* under bounded rates a connection carried a flow in the tick that returned
\* and holds the full strength
FlowReinforcedConnection ==
    /\ StepReturned
    /\ config.flow_decay_rate <= EScale
    /\ \E k \in 1 .. Len(connections) :
          connections[k].flow_accumulator > 0 /\ connections[k].strength = EScale

NoOutOfRangeAccess == ~oob

\* a tick met a parent index beyond the snapshot, skipped it and returned
StaleParentSkipped == StepReturned /\ tick_events.stale_skipped > 0 /\ ~oob

\* the indices of the agents and of the spores with alive set
LiveAgents == {k \in 1 .. Len(hyphae) : hyphae[k].alive}
LiveSpores == {k \in 1 .. Len(spores) : spores[k].alive}

\* C20: in every reachable state stats() returns the number of agents with
\* alive set, the number of spores with alive set, the length of the
\* connection list, the length of the fruit-body list, the sum of the live
\* agents' energies, and that sum divided by the live count (0 when there is
\* no live agent).
StatsMatchCollections ==
    /\ stats.hyphae_count = Cardinality(LiveAgents)
    /\ stats.spores_count = Cardinality(LiveSpores)
    /\ stats.connections_count = Len(connections)
    /\ stats.fruit_count = Len(fruit_bodies)
    /\ stats.total_energy = TotalEnergy(hyphae)
    /\ stats.avg_energy = IF LiveAgents = {} THEN 0
                          ELSE TotalEnergy(hyphae) \div Cardinality(LiveAgents)

\* the collections hold a dead agent with energy left beside a live one, and
\* a live spore
StatsOverMixedPopulation ==
    /\ \E k \in 1 .. Len(hyphae) : ~hyphae[k].alive /\ hyphae[k].energy > 0
    /\ LiveAgents # {}
    /\ LiveSpores # {}

\* C15: every fruit body is removed in the first tick in which its age is
\* greater than or equal to its assigned lifespan, and never in an earlier
\* tick: a tick leaves no fruit body whose age has reached its lifespan, and
\* keeps every fruit body whose age after the tick is still below it.
FruitBodiesRemovedOnExpiry ==
    [][frame_index' # frame_index =>
          /\ \A m \in 1 .. Len(fruit_bodies') :
                 fruit_bodies'[m].age < fruit_bodies'[m].lifespan
          /\ \A k \in 1 .. Len(fruit_bodies) :
                 fruit_bodies[k].age + 1 < fruit_bodies[k].lifespan =>
                     \E m \in 1 .. Len(fruit_bodies') :
                         /\ fruit_bodies'[m].x = fruit_bodies[k].x
                         /\ fruit_bodies'[m].y = fruit_bodies[k].y
                         /\ fruit_bodies'[m].lifespan = fruit_bodies[k].lifespan
                         /\ fruit_bodies'[m].age = fruit_bodies[k].age + 1]_vars

\* a tick in which a fruit body reached its lifespan returned, and the list
\* is empty again
FruitBodyExpired == StepReturned /\ tick_events.fruit_died > 0 /\ fruit_bodies = <<>>

\* C13: whenever two live agents are within anastomosis distance of each
\* other at the connection-formation pass and their pair is not yet in the
\* pair set, that pass creates a connection for the pair, whichever of the
\* two has the larger index and whichever spatial buckets they occupy: when
\* a step has returned, its formation pass left no such pair of agents
\* inside the grid without one.
NearPairsConnected == StepReturned => tick_events.unlinked = 0

\* some tick changes the agents, spores, connections, fruit bodies, nutrients
\* or fruiting timers of the current state
TickAlters ==
    \E fps \in FpsReadings :
        /\ Tick(fps)
        /\ <<hyphae, spores, connections, connection_set, fruit_bodies, nutrients,
              fruit_cooldown_timer, fruiting_failed_attempts>>'
             # <<hyphae, spores, connections, connection_set, fruit_bodies, nutrients,
                 fruit_cooldown_timer, fruiting_failed_attempts>>

\* C14: an isolated agent that starved is removed from the collection in some
\* later tick.  A state that holds a dead agent and that every tick, whatever
\* its draws, leaves as it is keeps that agent for good, so no state a tick
\* returns may be both.
DeadAgentsLeave ==
    (StepReturned /\ \E k \in Indices(hyphae) : ~At(hyphae, k).alive) => ENABLED TickAlters

\* the cells the diffusion updates when no agent is alive: all but the border
InteriorCells ==
    {c \in Cells(config.grid_size) :
        /\ c[1] \in 1 .. config.grid_size - 2
        /\ c[2] \in 1 .. config.grid_size - 2}

FieldTotal(f) ==
    Bind(SetToSeqDesc({c[1] * config.grid_size + c[2] : c \in Cells(config.grid_size)}),
         LAMBDA ks : SumSeq([k \in 1 .. Len(ks) |->
                               f[<<ks[k] \div config.grid_size, ks[k] % config.grid_size>>]]))

\* what the border cells, which are read but never written, hand to the cell c
\* at the values f, before the scaling by rate / 4
FromBorder(f, c) ==
    SumSeq([d \in 1 .. 4 |->
              Bind(<<c[1] + (IF d = 1 THEN 1 ELSE IF d = 2 THEN -1 ELSE 0),
                     c[2] + (IF d = 3 THEN 1 ELSE IF d = 4 THEN -1 ELSE 0)>>,
                   LAMBDA n : IF n \in InteriorCells THEN 0 ELSE f[n] - f[c])])

BorderExchange(f) ==
    Bind(SetToSeqDesc({c[1] * config.grid_size + c[2] : c \in InteriorCells}),
         LAMBDA ks : SumSeq([k \in 1 .. Len(ks) |->
                               FromBorder(f, <<ks[k] \div config.grid_size,
                                               ks[k] % config.grid_size>>)]))

\* the total changed by what the border handed over, up to the rounding of one
\* unit per updated cell
InteriorConserved(old, new, rate) ==
    Abs(4 * EScale * (FieldTotal(new) - FieldTotal(old)) - rate * BorderExchange(old))
      <= 4 * EScale * Cardinality(InteriorCells)

\* C16: on a grid without agents and without regeneration, the updates among
\* the interior cells of the diffused region conserve the totals of sugar and
\* nitrogen exactly: a tick that diffuses changes each total only by the
\* exchange with the border cells.
InteriorDiffusionConserves ==
    [][(/\ frame_index' # frame_index
        /\ hyphae = <<>> /\ hyphae' = <<>>
        /\ config.nutrient_regen_samples = 0
        /\ nutrients' # nutrients)
       => /\ InteriorConserved(nutrients.sugar, nutrients'.sugar, config.diffusion_rate)
          /\ InteriorConserved(nutrients.nitrogen, nutrients'.nitrogen,
                               (config.diffusion_rate * 7) \div 10)]_vars

\* C11: a tick is a function of the state, the configuration and the
\* generator's draws; it does not depend on the frame rate the process
\* measures.  No tick ends in a state that the same tick, from the same state
\* and with the same draws, would miss under another reading of get_fps().
TickIndependentOfFrameRate == StepReturned => ~tick_events.fps_dependent

\* the stages of a tick after the weather update, in the order of step()
StageOrder ==
    <<"spatial_index", "agents", "fusion", "formation", "flow", "pruning", "diffusion",
      "regeneration", "spores", "fruiting">>

InsideLock ==
    {Handler(r) : r \in {q \in 1 .. Len(requests) :
                            requests[q].pc \in {"has_simulation", "has_rng"}}}
      \cup (IF loop_pc \in {"locked", "stepping"} THEN {LoopTask} ELSE {})

\* C12: the background loop and the step, reset and pause handlers never
\* mutate the instance at the same time: at most one of them is between its
\* lock() and the drop of its guard, and that one holds the simulation lock.
MutationsExclusive ==
    /\ Cardinality(InsideLock) <= 1
    /\ \A t \in InsideLock : simulation_lock = t

\* a handler has run its ticks while the loop, having slept, waits for the lock
LoopWaitsForHandler ==
    \E r \in 1 .. Len(requests) :
        /\ requests[r].kind = "step"
        /\ requests[r].pc = "has_rng"
        /\ requests[r].left = 0
        /\ requests[r].frame_at_lock > 0
        /\ loop_pc = "idle"

\* C19: a step request with steps = N (1 when absent) runs exactly N ticks
\* under the lock: while it runs, the counter is the one it found plus the
\* ticks it has run, and the counter in its response is exactly N more.
StepRequestRunsExactly ==
    \A r \in 1 .. Len(requests) :
        requests[r].kind = "step" =>
            LET N == IF requests[r].steps = None THEN 1 ELSE requests[r].steps
            IN /\ requests[r].pc = "has_rng"
                    => frame_index = requests[r].frame_at_lock + N - requests[r].left
               /\ requests[r].pc = "done"
                    => requests[r].response = requests[r].frame_at_lock + N

\* a request with steps = 2 has answered after the loop asked for the lock
\* and found the instance paused
StepRequestAnswered ==
    /\ paused
    /\ loop_pc = "locked"
    /\ \E r \in 1 .. Len(requests) :
          requests[r].kind = "step" /\ requests[r].steps = 2 /\ requests[r].pc = "done"

\* the loop has run the tick of its round and not yet dropped its guards
LoopTicked == loop_pc = "stepping" /\ loop_steps = 0

\* C18: while the paused flag is set the background loop performs no tick, so
\* the counter changes only through the ticks of step requests; once the flag
\* is cleared the loop ticks again (unless the flag is set again first, or
\* the run has reached its last tick).
LoopRespectsPause ==
    /\ [][(paused /\ frame_index' # frame_index)
            => \E r \in 1 .. Len(requests) :
                  /\ requests[r].kind = "step"
                  /\ requests'[r].left = requests[r].left - 1]_vars
    /\ (~paused /\ frame_index < MaxTicks /\ loop_pc # "ended")
          ~> (paused \/ frame_index = MaxTicks \/ LoopTicked)

\* paused, stepped once by a request, resumed, and then ticked by the loop
LoopResumedAfterPause ==
    /\ Len(requests) = 3
    /\ requests[1].kind = "pause" /\ requests[1].pc = "done"
    /\ requests[2].kind = "step" /\ requests[2].pc = "done" /\ requests[2].frame_at_lock = 0
    /\ requests[3].kind = "pause" /\ requests[3].pc = "done"
    /\ ~paused
    /\ LoopTicked
    /\ frame_index = 2

\* C21: every call to step increases the tick counter by exactly one, and no
\* other call changes it, so after k steps on a fresh instance it equals k.
\* (Of the calls of the library, step is the one that is not counted in
\* external_calls.)
TickCounterCountsSteps ==
    [][/\ external_calls' = external_calls => frame_index' = frame_index + 1
       /\ external_calls' # external_calls => frame_index' = frame_index]_vars

\* the second step of a run has returned
SecondStepReturned == StepReturned /\ frame_index = 2

\* C22: constructing a simulation with grid size zero fails at construction:
\* no instance with such a grid is returned, and so none is stepped or fails
\* inside step.
ZeroGridFailsAtConstruction ==
    config.grid_size <= 0 => ~Constructed /\ frame_index = 0 /\ ~oob

\* a construction with grid_size = 0 was attempted and panicked
ZeroGridRejected == config.grid_size = 0 /\ last_call = "panicked"

\* C23: after any number of weather updates the temperature lies in [0, 2],
\* the humidity in [0, 1] and the rain in [0, 1], in rain and without, in
\* every season.
WeatherInPhysicalRange ==
    /\ weather.temperature \in 0 .. 2 * EScale
    /\ weather.humidity \in 0 .. EScale
    /\ weather.rain \in 0 .. EScale

\* an update under heavy rain, in winter, has held the humidity at its cap
HumidityCappedInWinterRain ==
    /\ frame_index > 0
    /\ weather.season = "Winter"
    /\ weather.rain > 1000
    /\ weather.humidity = 9500

\* C24: removing agents, by the eviction at the start of a tick or by fusion,
\* leaves no parent index and no connection endpoint designating another
\* agent than before the removal.
ReferencesFollowAgents == StepReturned => tick_events.repointed = 0

\* C25: every lookup the agent pass makes for an index j, in the neighbour
\* scan or for a parent, reads the position, the alive flag and the energy
\* agent j had before the pass, also when the collection holds dead agents.
LookupsReadOwnAgent == StepReturned => tick_events.misread = 0

\* a diffusion pass over the cells cs that reads every neighbour from the
\* field as it was before the pass
ReferencePass(field, cs, rate) ==
    [c \in DOMAIN field |->
        IF \E k \in 1 .. Len(cs) : cs[k] = c THEN DiffuseCell(field, c, rate)[c] ELSE field[c]]

\* the two fields agree up to one unit of rounding in every cell
SameField(f, g) == \A c \in DOMAIN f : Abs(f[c] - g[c]) <= 1

\* C26: one diffusion pass computes each cell's new value from the values of
\* before the pass only: on a grid without agents and without regeneration
\* the field a diffusing tick leaves equals that of a reference pass reading
\* an unmodified copy.
DiffusionReadsPrePassValues ==
    [][(/\ frame_index' # frame_index
        /\ hyphae = <<>> /\ hyphae' = <<>>
        /\ config.nutrient_regen_samples = 0
        /\ nutrients' # nutrients)
       => /\ SameField(nutrients'.sugar,
                       ReferencePass(nutrients.sugar, BoxCells(DiffusionBox(hyphae)),
                                     config.diffusion_rate))
          /\ SameField(nutrients'.nitrogen,
                       ReferencePass(nutrients.nitrogen, BoxCells(DiffusionBox(hyphae)),
                                     (config.diffusion_rate * 7) \div 10))]_vars

\* C27: when fusion absorbs an agent j into an agent i, every connection
\* between j and a third agent is kept and re-pointed to i.
FusionKeepsConnections == StepReturned => tick_events.severed = 0

\* C28: in one fusion pass a surviving agent absorbs at most one other agent.
AbsorbsAtMostOne == StepReturned => tick_events.absorbed_by_one <= 1

\* C29: whenever a step has returned, both endpoints of every connection are
\* alive, whichever stage of the tick killed an agent.
NoDeadEndpointAfterStep ==
    StepReturned =>
        \A k \in 1 .. Len(connections) :
            /\ EndpointAlive(hyphae, connections[k].hypha1)
            /\ EndpointAlive(hyphae, connections[k].hypha2)

\* the connection c joins two live agents and the flow along it is not
\* significant: |flow| <= 0.001
AtRest(c) ==
    /\ EndpointAlive(hyphae, c.hypha1) /\ EndpointAlive(hyphae, c.hypha2)
    /\ Abs(Flow(c, At(hyphae, Min(c.hypha1, c.hypha2)), At(hyphae, Max(c.hypha1, c.hypha2))))
          <= EScale \div 1000

IdleConnectionPresent == \E k \in 1 .. Len(connections) : AtRest(connections[k])

\* C30: with adaptive growth enabled, a connection between live agents that
\* carries no significant flow does not stay so for ever: its strength falls
\* under the pruning threshold and it leaves the list and the pair set.
IdleConnectionsArePruned ==
    (config.adaptive_growth_enabled /\ IdleConnectionPresent)
        ~> (/\ ~IdleConnectionPresent
            /\ connection_set = {ConnectionKey(connections[k]) : k \in 1 .. Len(connections)})

\* the flow update of the connection (0, 1) between two live agents, when
\* connection_flow_rate * strength is at most bound / EScale^2: what agent 0
\* loses agent 1 gains, the energy moves downhill, and the order of the two
\* energies is not reversed
FlowUpdateSound(bound) ==
    (/\ Len(connections) = 1
     /\ hyphae[1].alive /\ hyphae[2].alive
     /\ config.connection_flow_rate * connections[1].strength <= bound
     /\ hyphae' # hyphae)
    => LET a == hyphae[1].energy  b == hyphae[2].energy
           a2 == hyphae'[1].energy  b2 == hyphae'[2].energy
       IN /\ a - a2 = b2 - b
          /\ a >= b => (a2 <= a /\ a2 >= b2)
          /\ a <= b => (a2 >= a /\ a2 <= b2)

TransfersDeferredFromSnapshot ==
    StepReturned => /\ tick_events.early_transfers = 0
                    /\ tick_events.mistransferred = 0
                    /\ tick_events.max_transfer <= EScale \div 100

\* the number of fruit bodies the tick from the unprimed to the primed state
\* created
FruitBodiesCreated == Len(fruit_bodies') - Len(fruit_bodies) + tick_events'.fruit_died

\* C33: a tick creates a fruit body only if at its fruiting stage the cooldown
\* is 0, the live agents are at least fruiting_min_hyphae and their energy at
\* least fruiting_threshold_total_energy; it creates at most one, and then the
\* cooldown is fruiting_cooldown when the tick returns.
FruitBodyOnlyWhenDue ==
    [][(frame_index' # frame_index /\ FruitBodiesCreated # 0)
          => /\ FruitBodiesCreated = 1
             /\ tick_events'.fruit_guard.cooldown = 0
             /\ tick_events'.fruit_guard.live >= config.fruiting_min_hyphae
             /\ tick_events'.fruit_guard.energy >= config.fruiting_threshold_total_energy
             /\ fruit_cooldown_timer' = config.fruiting_cooldown]_vars

\* a tick created a fruit body and started the cooldown
FruitBodyCreatedWhenDue ==
    /\ StepReturned
    /\ tick_events.fruited = 1
    /\ Len(fruit_bodies) >= 1
    /\ tick_events.fruit_guard.cooldown = 0
    /\ fruit_cooldown_timer = config.fruiting_cooldown
    /\ fruit_cooldown_timer > 0

\* the trigger conditions and the fallback conditions on the size and the
\* energy of the network hold
FallbackConditions ==
    /\ Len(LiveHyphae(hyphae)) >= config.fruiting_min_hyphae * 2
    /\ 10 * TotalEnergy(hyphae) >= 14 * config.fruiting_threshold_total_energy

\* C34: while the trigger and the fallback conditions hold on every tick, a
\* colony without a fruit body eventually has one, whatever the nutrients and
\* the obstacles are.
FallbackEventuallySpawns ==
    (FallbackConditions /\ fruit_bodies = <<>>) ~> (fruit_bodies # <<>>)

\* C35: the site search of a tick settles on a cell that is not an obstacle
\* and that is the richest of the unobstructed cells within the radius.
SiteIsRichestUnobstructed ==
    (StepReturned /\ tick_events.site.searched)
        => (~tick_events.site.obstructed /\ tick_events.site.richest)

\* C36: a tick removes no fruit body that has triggered no spore release
\* event, neither at a scheduled age nor at its death.
EveryFruitBodyReleases == StepReturned => tick_events.silent_deaths = 0

\* a fruit body died without a scheduled release and triggered its release
\* at its death
FinalReleaseAtDeath ==
    /\ StepReturned
    /\ tick_events.fruit_died > 0
    /\ tick_events.final_releases > 0

\* C37: every agent a tick created by branching records as its parent the
\* index of the agent that branched.
BranchRecordsItsSpawner == StepReturned => tick_events.misparented = 0

\* C38: after the agent pass of a tick no live agent that moved in the tick
\* is in an obstacle cell.
MovedAgentsOutsideObstacles == StepReturned => tick_events.in_obstacle = 0

WantsGenerator ==
    {Handler(r) : r \in {q \in 1 .. Len(requests) :
                            /\ requests[q].kind \in {"step", "reset"}
                            /\ requests[q].pc = "has_simulation"}}
      \cup (IF loop_pc = "locked" /\ Running(paused) THEN {LoopTask} ELSE {})

\* C40: the generator lock is only ever held by the task that holds the
\* simulation lock (the simulation lock is taken first), the loop holds no
\* lock while it sleeps, and a task that holds the simulation lock and asks
\* for the generator lock never has to wait for it: the loop and the step
\* and reset requests cannot deadlock, and no request waits out the sleep.
LocksOrderedAndDroppedBeforeSleep ==
    /\ rng_lock \notin {Free, Poisoned} => simulation_lock = rng_lock
    /\ loop_pc = "idle" => (simulation_lock # LoopTask /\ rng_lock # LoopTask)
    /\ WantsGenerator # {} => Acquirable(rng_lock)

\* the loop has ticked and sleeps, and the first request, a reset, holds both
\* locks meanwhile
ResetHoldsBothWhileLoopSleeps ==
    /\ loop_pc = "idle"
    /\ Len(requests) >= 1
    /\ requests[1].kind = "reset"
    /\ requests[1].pc = "has_rng"
    /\ requests[1].frame_at_lock > 0
    /\ simulation_lock = Handler(1)
    /\ rng_lock = Handler(1)

TypeOK ==
    /\ frame_index \in 0 .. MaxTicks
    /\ external_calls \in 0 .. MaxExternalCalls
    /\ oob \in BOOLEAN
    /\ paused \in BOOLEAN
    /\ speed_accumulator \in 0 .. 9
    /\ simulation_lock \in {Free, Poisoned, LoopTask} \cup {Handler(r) : r \in 1 .. MaxRequests}
    /\ rng_lock \in {Free, Poisoned, LoopTask} \cup {Handler(r) : r \in 1 .. MaxRequests}
    /\ loop_pc \in {"idle", "locked", "stepping", "ended"}
    /\ Len(requests) <= MaxRequests

====
